---- MODULE Spec2Model ----
(***************************************************************************)
(* SQLHelpersAJM: the query/result-normalisation layer of _BaseSQLHelper,  *)
(* its dialect overrides, and the construction-time attribute contract of  *)
(* the table-tracking helpers.                                             *)
(***************************************************************************)
EXTENDS Integers, Sequences, FiniteSets, TLC

(***************************************************************************)
(* Bounds of the model.                                                    *)
(***************************************************************************)
\* most rows a statement of the fixture database returns
MaxRows == 2
\* most connections one instance opens in a run
MaxConns == 2
\* most rows of a row set handed to normalize_single_result alone
MaxNormRows == 2
\* most required roles a template catalog lacks
MaxMissing == 2
\* most times one tracking helper class is instantiated against one database
MaxRuns == 2
\* most rows the audit_log table holds
MaxAudit == 4
\* most schemas the server lists
MaxSchemas == 2

(***************************************************************************)
(* Python values.  A value is a tagged record; a str is the sequence of    *)
(* its characters, so that iterating over it yields one-character strs.    *)
(***************************************************************************)
PyNone == [t |-> "None"]
PyInt(n) == [t |-> "int", v |-> n]
PyBool(b) == [t |-> "bool", v |-> b]
PyStr(chars) == [t |-> "str", v |-> chars]
PyTuple(items) == [t |-> "tuple", v |-> items]
PyList(items) == [t |-> "list", v |-> items]
\* a dict is the sequence of its (key, value) pairs in iteration order
PyDict(pairs) == [t |-> "dict", v |-> pairs]

Sized == {"str", "tuple", "list", "dict"}

\* bool(x)
Truthy(x) ==
    CASE x.t = "None" -> FALSE
      [] x.t = "int" -> x.v # 0
      [] x.t = "bool" -> x.v
      [] OTHER -> Len(x.v) > 0

\* iter(x): the items a for loop or zip draws from x; only for x.t \in Sized
IterItems(x) ==
    IF x.t = "str" THEN [i \in 1..Len(x.v) |-> PyStr(<<x.v[i]>>)]
    ELSE x.v

Min(a, b) == IF a <= b THEN a ELSE b

\* a normalize_single_result that forgets the blank-second-column case
normalize_one_column_only(result) ==
    IF Len(result.v) = 1
    THEN LET row == result.v[1]
         IN  IF Len(row.v) = 1 THEN row.v[1] ELSE row
    ELSE result

\* a normalize_single_result that unwraps the first row of any non-empty result
normalize_first_row(result) ==
    IF Len(result.v) >= 1
    THEN LET row == result.v[1]
         IN  IF Len(row.v) = 1 \/ (Len(row.v) = 2 /\ row.v[2] = PyStr(<<>>))
             THEN row.v[1]
             ELSE row
    ELSE result

(***************************************************************************)
(* _BaseSQLHelper.normalize_single_result                                  *)
(***************************************************************************)
normalize_single_result(result) ==
    IF Len(result.v) = 1
    THEN LET row == result.v[1]
         IN  IF Len(row.v) = 1 \/ (Len(row.v) = 2 /\ row.v[2] = PyStr(<<>>))
             THEN row.v[1]
             ELSE row
    ELSE result

(***************************************************************************)
(* The database the instance talks to: one table t(id, name, note) and the *)
(* statements run against it.  A select names its column list and how many *)
(* rows it returns; a ddl statement produces no result set.                *)
(***************************************************************************)
\* column names in sorted (alphabetical) order
SortedColumns == <<"id", "name", "note">>
Rank(col) == CHOOSE i \in 1..Len(SortedColumns) : SortedColumns[i] = col

CellAt(i, col) ==
    CASE col = "id" -> PyInt(i)
      [] col = "name" -> IF i % 2 = 1 THEN PyStr(<<"a", "b">>) ELSE PyStr(<<"c">>)
      [] col = "note" -> IF i % 2 = 1 THEN PyStr(<<>>) ELSE PyStr(<<"x">>)

Selections ==
    { <<"id">>, <<"name">>, <<"note">>,
      <<"name", "note">>, <<"id", "name">>, <<"name", "id">>,
      <<"id", "name", "note">>, <<"note", "name", "id">> }

Statements ==
    [kind : {"select"}, cols : Selections, n : 0..MaxRows]
        \cup {[kind |-> "ddl", cols |-> <<>>, n |-> 0]}

RowOf(stmt, i) == PyTuple([j \in 1..Len(stmt.cols) |-> CellAt(i, stmt.cols[j])])
\* cursor.fetchall() after the statement ran
FetchedRows(stmt) == PyList([i \in 1..stmt.n |-> RowOf(stmt, i)])

\* cursor.description: absent, or the column names of the last result set
NoDescription == [set |-> FALSE, names |-> <<>>]
DescriptionOf(stmt) ==
    IF stmt.kind = "select" THEN [set |-> TRUE, names |-> stmt.cols]
    ELSE NoDescription

Dialects == {"SQLServer", "SQLite3"}
\* fetchall on a statement without a result set: sqlite3 returns [], the
\* other drivers raise
FetchallRaises(d, stmt) == stmt.kind = "ddl" /\ d # "SQLite3"

Faults == {"none", "execute", "fetchall", "commit"}

(***************************************************************************)
(* State of one helper instance.                                           *)
(***************************************************************************)
VARIABLES
    dialect,        \* which helper class the instance is
    connection,     \* self._connection: 0 (None) or the id of a connection
    cursor,         \* self._cursor: 0 (None) or the id of the connection it came from
    description,    \* self._cursor.description
    query_results,  \* self._query_results
    opened,         \* ids of the connections _connect has opened
    everAcquired,   \* get_connection_and_cursor has returned normally
    everExecuted,   \* query has called cursor.execute
    lastGood,       \* the latest query call that raised nothing: its rows and columns
    last,           \* what the latest call did: its outcome as the caller sees it
    normIn, normOut,                    \* normalize_single_result on its own
    klass,          \* a tracking helper class: dialect, template catalog, TABLES_TO_TRACK
    db,             \* the audit objects the target database holds
    built,          \* what instantiating klass did
    attrs,          \* a connection-attributes instance: its attributes and cached string
    cx,             \* what the latest call on attrs did
    tracked,        \* the rows of the tracked table: row id -> value, or absent
    audit_log,      \* the rows of the audit_log table, oldest first
    dml,            \* the latest statement on the tracked table
    procs,          \* the instances running function provisioning side by side
    pg              \* a PostgresHelper and the schemas its server lists

vars == <<dialect, connection, cursor, description, query_results, opened,
          everAcquired, everExecuted, lastGood, last, normIn, normOut, klass, db, built,
          attrs, cx, tracked, audit_log, dml, procs, pg>>

instanceVars == <<dialect, connection, cursor, description, query_results,
                  opened, everAcquired, everExecuted, lastGood, last>>
normVars == <<normIn, normOut>>
contractVars == <<klass, db, built>>
codecVars == <<attrs, cx>>
auditVars == <<tracked, audit_log, dml>>
targetVars == <<auditVars, procs, pg>>

\* exceptions: the class, and the driver call that raised it
NoExc == [cls |-> "none", at |-> "none"]
DriverException(at) == [cls |-> "DriverError", at |-> at]
NoCursorInitializedError == [cls |-> "NoCursorInitializedError", at |-> "cursor_check"]

\* executed, committed: the call invoked cursor.execute, connection.commit;
\* accepted: cursor.execute returned; is_commit: the keyword given to query
\* last: the latest call.  thrown: the exception the driver raised inside it;
\* reached: the exception the caller got; logged: the records the call wrote
NoCall == [op |-> "none", raised |-> "none", executed |-> FALSE,
           committed |-> FALSE, changed |-> FALSE, ret |-> PyNone, arg |-> PyNone,
           accepted |-> FALSE, is_commit |-> FALSE,
           thrown |-> NoExc, reached |-> NoExc, logged |-> <<>>]
Call(op, raised, executed, committed, changed, ret) ==
    [NoCall EXCEPT !.op = op, !.raised = raised, !.executed = executed,
                   !.committed = committed, !.changed = changed, !.ret = ret]

NoRowsYet == [t |-> "unset"]
NoQueryYet == [done |-> FALSE, rows |-> PyNone, desc |-> NoDescription]

\* _BaseSQLHelper.__init__
InstanceInit ==
    /\ dialect \in Dialects
    /\ connection = 0
    /\ cursor = 0
    /\ description = NoDescription
    /\ query_results = PyNone
    /\ opened = {}
    /\ everAcquired = FALSE
    /\ everExecuted = FALSE
    /\ lastGood = NoQueryYet
    /\ last = NoCall

NormIdle == normIn = PyList(<<>>) /\ normOut = NoRowsYet
NoStatement == [role |-> "none", about |-> "none", is_commit |-> FALSE]
NoDb == [audit |-> FALSE, triggers |-> {}, functions |-> {}]
\* built: the latest instantiation.  err, carried: the class of the exception
\* the caller got and what it carries; failed: the statement that raised;
\* issued: the statements sent through query; log: one entry per
\* instantiation so far, with the database before and after it
NotBuilt == [done |-> FALSE, runs |-> 0, err |-> "none", missing |-> {},
             connected |-> FALSE, issued |-> <<>>, injected |-> FALSE,
             failed |-> NoStatement,
             carried |-> [stmt |-> NoStatement, cause |-> "none"],
             log |-> <<>>]
ContractIdle == klass = [dialect |-> "none"] /\ db = NoDb /\ built = NotBuilt
NoAttrs == [kind |-> "none"]
NoCx == [op |-> "none"]
CodecIdle == attrs = NoAttrs /\ cx = NoCx
NoDml == [op |-> "none"]
AuditIdle == tracked = <<>> /\ audit_log = <<>> /\ dml = NoDml
NoPg == [state |-> "none"]
TargetIdle == AuditIdle /\ procs = <<>> /\ pg = NoPg

Init == InstanceInit /\ NormIdle /\ ContractIdle /\ CodecIdle /\ TargetIdle

\* self._logger.error(err, exc_info=True)
logger_error(err) == [level |-> "error", err |-> err]

\* a handler that logs the error and returns
log_and_return(err) == NoExc

\* log_and_raise_error: the exception that leaves it (raise err from None)
log_and_raise_error(err) == err

\* except Exception as e: self.log_and_raise_error(e), then the statement
\* after it, which returns fallthrough when the handler comes back
Except(op, e, before, executed, committed, fallthrough) ==
    LET out == log_and_raise_error(e)
    IN  [Call(op, out.cls, executed, committed, FALSE,
              IF out = NoExc THEN fallthrough ELSE PyNone)
            EXCEPT !.thrown = IF e.cls = "DriverError" THEN e ELSE NoExc,
                   !.reached = out,
                   !.logged = before \o <<logger_error(e)>>]

\* an is_ready_for_query that looks at the connection instead of the cursor
connection_is_set == connection # 0

\* _BaseSQLHelper.is_ready_for_query
is_ready_for_query == cursor # 0

\* a query that resets the stored result when it raises
results_cleared_on_raise == PyNone

\* query's except branch: the error is logged and raised again, and
\* self._query_results keeps what it held
results_after_raise == query_results

(***************************************************************************)
(* get_connection_and_cursor, with SQLite3Helper's override: after the     *)
(* base method returns, PRAGMA foreign_keys = ON is executed and committed *)
(* (a connection-local flag: it reads no file and returns no result set).  *)
(***************************************************************************)
get_connection_and_cursor(fault) ==
    /\ Cardinality(opened) < MaxConns
    /\ LET id == Cardinality(opened) + 1
       IN  CASE fault = "connect" ->
                  /\ last' = Except("get_connection_and_cursor", DriverException("connect"),
                                    <<>>, FALSE, FALSE, PyTuple(<<PyNone, PyNone>>))
                  /\ UNCHANGED <<connection, cursor, description, opened, everAcquired>>
             [] fault = "cursor" ->
                  /\ connection' = id
                  /\ opened' = opened \cup {id}
                  /\ last' = Except("get_connection_and_cursor", DriverException("cursor"),
                                    <<>>, FALSE, FALSE, PyTuple(<<PyNone, PyNone>>))
                  /\ UNCHANGED <<cursor, description, everAcquired>>
             [] OTHER ->
                  /\ connection' = id
                  /\ cursor' = id
                  /\ opened' = opened \cup {id}
                  /\ description' = NoDescription
                  /\ everAcquired' = TRUE
                  /\ last' = Call("get_connection_and_cursor", "none",
                                  dialect = "SQLite3", dialect = "SQLite3",
                                  FALSE, PyTuple(<<PyInt(id), PyInt(id)>>))
    /\ UNCHANGED <<dialect, query_results, everExecuted, lastGood>>

(***************************************************************************)
(* query(sql_string, is_commit=...): cursor_check, execute, fetchall,      *)
(* commit when asked, normalize, store.  Any exception is logged and       *)
(* raised again; nothing after the raising statement runs.                 *)
(***************************************************************************)
query(stmt, is_commit, fault) ==
    /\ fault = "commit" => is_commit
    /\ CASE ~is_ready_for_query ->
              /\ last' = [Except("query", NoCursorInitializedError,
                                 <<logger_error(NoCursorInitializedError)>>,
                                 FALSE, FALSE, PyNone)
                              EXCEPT !.is_commit = is_commit]
              /\ query_results' = results_after_raise
              /\ UNCHANGED <<description, lastGood>>
         [] is_ready_for_query /\ fault = "execute" ->
              /\ description' = NoDescription
              /\ last' = [Except("query", DriverException("execute"), <<>>,
                                 TRUE, FALSE, PyNone)
                              EXCEPT !.is_commit = is_commit]
              /\ query_results' = results_after_raise
              /\ UNCHANGED lastGood
         [] is_ready_for_query /\ fault # "execute"
               /\ (fault = "fetchall" \/ FetchallRaises(dialect, stmt)) ->
              /\ description' = DescriptionOf(stmt)
              /\ last' = [Except("query", DriverException("fetchall"), <<>>,
                                 TRUE, FALSE, PyNone)
                              EXCEPT !.is_commit = is_commit, !.accepted = TRUE]
              /\ query_results' = results_after_raise
              /\ UNCHANGED lastGood
         [] is_ready_for_query /\ fault = "commit"
               /\ ~FetchallRaises(dialect, stmt) ->
              /\ description' = DescriptionOf(stmt)
              /\ last' = [Except("query", DriverException("commit"), <<>>,
                                 TRUE, TRUE, PyNone)
                              EXCEPT !.is_commit = is_commit, !.accepted = TRUE]
              /\ query_results' = results_after_raise
              /\ UNCHANGED lastGood
         [] OTHER ->
              LET res == FetchedRows(stmt)
                  new == normalize_single_result(res)
              IN  /\ description' = DescriptionOf(stmt)
                  /\ query_results' = new
                  /\ lastGood' = [done |-> TRUE, rows |-> res, desc |-> DescriptionOf(stmt)]
                  /\ last' = [Call("query", "none", TRUE, is_commit,
                                   new # query_results, PyNone)
                                  EXCEPT !.is_commit = is_commit, !.accepted = TRUE]
    /\ everExecuted' = (everExecuted \/ is_ready_for_query)
    /\ UNCHANGED <<dialect, connection, cursor, opened, everAcquired>>

(***************************************************************************)
(* results_column_names: [d[0] for d in self._cursor.description], with    *)
(* AttributeError (no cursor) turned into None.  A cursor whose            *)
(* description is None makes the comprehension raise TypeError, which is   *)
(* not caught.                                                             *)
(***************************************************************************)
results_column_names ==
    CASE cursor = 0 -> [raised |-> "none", isNone |-> TRUE, names |-> <<>>]
      [] cursor # 0 /\ ~description.set ->
             [raised |-> "TypeError", isNone |-> TRUE, names |-> <<>>]
      [] OTHER -> [raised |-> "none", isNone |-> FALSE, names |-> description.names]

\* dict(ChainMap(*maps)) for one-pair maps: keys are met from the last map to
\* the first, each kept where it was first met; the first map that has a key
\* gives its value
RECURSIVE ChainKeys(_, _)
ChainKeys(maps, i) ==
    IF i > Len(maps) THEN <<>>
    ELSE LET rest == ChainKeys(maps, i + 1)
         IN  IF \E j \in 1..Len(rest) : rest[j] = maps[i][1]
             THEN rest
             ELSE Append(rest, maps[i][1])
ChainValue(maps, key) ==
    maps[CHOOSE i \in 1..Len(maps) :
             maps[i][1] = key /\ \A j \in 1..(i - 1) : maps[j][1] # key][2]
DictOfChainMap(maps) ==
    LET keys == ChainKeys(maps, 1)
    IN  [j \in 1..Len(keys) |-> <<keys[j], ChainValue(maps, keys[j])>>]

\* the pairs of a dict left in the order the ChainMap gave them
UnsortedItems(pairs) == pairs

\* sorted(x.items()): the pairs of a dict by key
RECURSIVE SortedItems(_)
SortedItems(pairs) ==
    IF pairs = <<>> THEN <<>>
    ELSE LET m == CHOOSE i \in 1..Len(pairs) :
                      \A j \in 1..Len(pairs) : Rank(pairs[i][1]) <= Rank(pairs[j][1])
             rest == [j \in 1..(Len(pairs) - 1) |-> IF j < m THEN pairs[j] ELSE pairs[j + 1]]
         IN  <<pairs[m]>> \o SortedItems(rest)

\* zip(row, names) into one-pair maps, chained, then sorted by key
RowDict(row, names) ==
    LET cells == IterItems(row)
        k == Min(Len(cells), Len(names))
        maps == [j \in 1..k |-> <<names[j], cells[j]>>]
    IN  PyDict(SortedItems(DictOfChainMap(maps)))

Raise(exc) == [raised |-> exc, ret |-> PyNone]
Return(val) == [raised |-> "none", ret |-> val]

(***************************************************************************)
(* _ConvertToFinalListDict(results)                                        *)
(***************************************************************************)
ConvertToFinalListDict(results) ==
    IF results.t \notin Sized THEN Raise("TypeError")
    ELSE LET rows == IterItems(results)
             cols == results_column_names
         IN  CASE Len(rows) = 0 -> Return(PyNone)
               [] Len(rows) > 0 /\ cols.raised # "none" -> Raise(cols.raised)
               [] Len(rows) > 0 /\ cols.raised = "none"
                     /\ (cols.isNone \/ Len(cols.names) = 0) ->
                      Raise("NoResultsToConvertError")
               [] Len(rows) > 0 /\ cols.raised = "none" /\ ~cols.isNone
                     /\ Len(cols.names) > 0
                     /\ (\E i \in 1..Len(rows) : rows[i].t \notin Sized) ->
                      Raise("TypeError")
               [] OTHER ->
                      Return(PyList([i \in 1..Len(rows) |-> RowDict(rows[i], cols.names)]))

\* the list_dict_results property
list_dict_results ==
    IF Truthy(query_results) THEN ConvertToFinalListDict(query_results)
    ELSE Return(PyNone)

\* row sets handed to _ConvertToFinalListDict directly
ConvertArgs ==
    { PyList(<<>>),
      FetchedRows([kind |-> "select", cols |-> <<"id", "name">>, n |-> 1]),
      FetchedRows([kind |-> "select", cols |-> <<"name", "id">>, n |-> MaxRows]) }


GetConnection ==
    /\ \E fault \in {"none", "connect", "cursor"} : get_connection_and_cursor(fault)
    /\ UNCHANGED <<normVars, contractVars, codecVars, targetVars>>

Query ==
    /\ \E stmt \in Statements, is_commit \in BOOLEAN, fault \in Faults :
           query(stmt, is_commit, fault)
    /\ UNCHANGED <<normVars, contractVars, codecVars, targetVars>>

ListDictResults ==
    /\ LET out == list_dict_results
       IN  last' = Call("list_dict_results", out.raised, FALSE, FALSE, FALSE, out.ret)
    /\ UNCHANGED <<dialect, connection, cursor, description, query_results,
                   opened, everAcquired, everExecuted, lastGood>>
    /\ UNCHANGED <<normVars, contractVars, codecVars, targetVars>>

ConvertCall ==
    /\ \E results \in ConvertArgs \cup {query_results} :
           LET out == ConvertToFinalListDict(results)
           IN  last' = [Call("_ConvertToFinalListDict", out.raised, FALSE, FALSE,
                             FALSE, out.ret) EXCEPT !.arg = results]
    /\ UNCHANGED <<dialect, connection, cursor, description, query_results,
                   opened, everAcquired, everExecuted, lastGood>>
    /\ UNCHANGED <<normVars, contractVars, codecVars, targetVars>>

(***************************************************************************)
(* normalize_single_result on its own, over every row set of up to         *)
(* MaxNormRows rows of one, two or three columns.                          *)
(***************************************************************************)
NormWidths == {1, 2, 3}
NormCells == {PyStr(<<>>), PyStr(<<"a">>), PyInt(0)}
\* the row set of n rows of w columns whose cells are m[i][j]
RowSetOf(n, m) == PyList([i \in 1..n |-> PyTuple(m[i])])

Normalize ==
    /\ normOut = NoRowsYet
    /\ normOut' = normalize_single_result(normIn)
    /\ UNCHANGED <<normIn, instanceVars, contractVars, codecVars, targetVars>>

InitNorm ==
    /\ InstanceInit
    /\ dialect = "SQLite3"
    /\ \E n \in 0..MaxNormRows, w \in NormWidths :
           \E m \in [1..n -> [1..w -> NormCells]] : normIn = RowSetOf(n, m)
    /\ normOut = NoRowsYet
    /\ TargetIdle
    /\ ContractIdle
    /\ CodecIdle

NextNorm == Normalize

SpecNorm == InitNorm /\ [][NextNorm]_vars

(***************************************************************************)
(* Exceptions of backend/errors.py: each class and its base class.         *)
(***************************************************************************)
\* a hierarchy in which NoTrackedTablesError derives from
\* MissingRequiredClassAttribute
ErrorBaseMerged(e) ==
    CASE e = "NoTrackedTablesError" -> "MissingRequiredClassAttribute"
      [] e = "NoConnectionInitializedError" -> "NoCursorInitializedError"
      [] e = "Exception" -> "Exception"
      [] e = "_UseDefaultMessageBase" -> "Exception"
      [] OTHER -> "_UseDefaultMessageBase"

ErrorBase(e) ==
    CASE e = "NoConnectionInitializedError" -> "NoCursorInitializedError"
      [] e = "Exception" -> "Exception"
      [] e = "_UseDefaultMessageBase" -> "Exception"
      [] OTHER -> "_UseDefaultMessageBase"

\* isinstance(an instance of e, cls)
RECURSIVE IsA(_, _)
IsA(e, cls) ==
    \/ e = cls
    \/ (e # "Exception" /\ IsA(ErrorBase(e), cls))

(***************************************************************************)
(* Table tracking: the template roles of a dialect, the tracked tables,    *)
(* and the gate that refuses to build a tracking helper.                   *)
(***************************************************************************)
TrackingDialects == {"Postgres", "SQLServer", "SQLite3"}

CommonRoles ==
    {"AUDIT_LOG_CREATE_TABLE", "AUDIT_LOG_CREATED_CHECK", "HAS_TRIGGER_CHECK",
     "GET_COLUMN_NAMES", "INSERT_TRIGGER", "UPDATE_TRIGGER", "DELETE_TRIGGER"}
FunctionRoles ==
    {"LOG_AFTER_INSERT_FUNC", "LOG_AFTER_UPDATE_FUNC", "LOG_AFTER_DELETE_FUNC",
     "FUNC_EXISTS_CHECK"}
AllRoles == CommonRoles \cup FunctionRoles
RequiredRoles(d) == IF d = "Postgres" THEN AllRoles ELSE CommonRoles

\* BaseCreateTriggers._MAGIC_IGNORE_STRING
MAGIC_IGNORE_STRING == "_MAGIC_IGNORE_STRING"
TrackedSets ==
    { <<>>, <<MAGIC_IGNORE_STRING>>, <<"test_table">>,
      <<MAGIC_IGNORE_STRING, "test_table">> }

OnlySentinel(tables) ==
    /\ Len(tables) > 0
    /\ \A i \in 1..Len(tables) : tables[i] = MAGIC_IGNORE_STRING

\* the required roles of k that are absent or still the placeholder, with
\* TABLES_TO_TRACK itself when it names nothing
MissingRoles(k) ==
    {r \in RequiredRoles(k.dialect) : k.catalog[r] # "sql"}
        \cup (IF Len(k.tables) = 0 THEN {"TABLES_TO_TRACK"} ELSE {})

\* a gate that reports one missing role only
AttributeContractFirstOnly(k) ==
    CASE OnlySentinel(k.tables) -> [err |-> "NoTrackedTablesError", missing |-> {}]
      [] ~OnlySentinel(k.tables) /\ MissingRoles(k) # {} ->
             [err |-> "MissingRequiredClassAttribute",
              missing |-> {CHOOSE r \in MissingRoles(k) : TRUE}]
      [] OTHER -> [err |-> "none", missing |-> {}]

\* AttributeContract: a sentinel-only TABLES_TO_TRACK fails with
\* NoTrackedTablesError; otherwise any missing role fails with
\* MissingRequiredClassAttribute naming all of them
AttributeContract(k) ==
    CASE OnlySentinel(k.tables) -> [err |-> "NoTrackedTablesError", missing |-> {}]
      [] ~OnlySentinel(k.tables) /\ MissingRoles(k) # {} ->
             [err |-> "MissingRequiredClassAttribute", missing |-> MissingRoles(k)]
      [] OTHER -> [err |-> "none", missing |-> {}]

\* one statement sent through query: the template it comes from, the table
\* or function it is about, and whether it is committed
Statement(role, about, is_commit) ==
    [role |-> role, about |-> about, is_commit |-> is_commit]

RECURSIVE Flatten(_)
Flatten(seqs) == IF seqs = <<>> THEN <<>> ELSE Head(seqs) \o Flatten(Tail(seqs))

TriggerOps == {"insert", "update", "delete"}
TriggerRoles == <<"INSERT_TRIGGER", "UPDATE_TRIGGER", "DELETE_TRIGGER">>
TriggerOp(role) ==
    CASE role = "INSERT_TRIGGER" -> "insert"
      [] role = "UPDATE_TRIGGER" -> "update"
      [] role = "DELETE_TRIGGER" -> "delete"

\* a trigger check whose answer is logged and never acted upon
has_trigger_advisory(dl, d, t) == FALSE

\* HAS_TRIGGER_CHECK: the Postgres template looks for the trigger named
\* after_<table>_insert, the others for any trigger on the table
has_trigger(dl, d, t) ==
    IF dl = "Postgres" THEN <<t, "insert">> \in d.triggers
    ELSE \E op \in TriggerOps : <<t, op>> \in d.triggers

\* TriggerProvisioner steps 1 and 2: the audit table, then each tracked table
AuditTableStatements(d) ==
    <<Statement("AUDIT_LOG_CREATED_CHECK", "audit_log", FALSE)>>
        \o (IF d.audit THEN <<>>
            ELSE <<Statement("AUDIT_LOG_CREATE_TABLE", "audit_log", TRUE)>>)
TableStatements(dl, d, t) ==
    IF t = MAGIC_IGNORE_STRING THEN <<>>
    ELSE <<Statement("HAS_TRIGGER_CHECK", t, FALSE)>>
             \o (IF has_trigger(dl, d, t) THEN <<>>
                 ELSE [i \in 1..Len(TriggerRoles) |-> Statement(TriggerRoles[i], t, TRUE)])
TrackerStatements(k, d) ==
    AuditTableStatements(d)
        \o Flatten([i \in 1..Len(k.tables) |-> TableStatements(k.dialect, d, k.tables[i])])

\* the characters of an attribute name
Spelling(attr) ==
    CASE attr = "AUDIT_LOG_CREATE_TABLE" ->
             <<"A", "U", "D", "I", "T", "_", "L", "O", "G", "_", "C", "R", "E", "A", "T", "E", "_", "T", "A", "B", "L", "E">>
      [] attr = "AUDIT_LOG_CREATED_CHECK" ->
             <<"A", "U", "D", "I", "T", "_", "L", "O", "G", "_", "C", "R", "E", "A", "T", "E", "D", "_", "C", "H", "E", "C", "K">>
      [] attr = "HAS_TRIGGER_CHECK" ->
             <<"H", "A", "S", "_", "T", "R", "I", "G", "G", "E", "R", "_", "C", "H", "E", "C", "K">>
      [] attr = "GET_COLUMN_NAMES" ->
             <<"G", "E", "T", "_", "C", "O", "L", "U", "M", "N", "_", "N", "A", "M", "E", "S">>
      [] attr = "INSERT_TRIGGER" ->
             <<"I", "N", "S", "E", "R", "T", "_", "T", "R", "I", "G", "G", "E", "R">>
      [] attr = "UPDATE_TRIGGER" ->
             <<"U", "P", "D", "A", "T", "E", "_", "T", "R", "I", "G", "G", "E", "R">>
      [] attr = "DELETE_TRIGGER" ->
             <<"D", "E", "L", "E", "T", "E", "_", "T", "R", "I", "G", "G", "E", "R">>
      [] attr = "LOG_AFTER_INSERT_FUNC" ->
             <<"L", "O", "G", "_", "A", "F", "T", "E", "R", "_", "I", "N", "S", "E", "R", "T", "_", "F", "U", "N", "C">>
      [] attr = "LOG_AFTER_UPDATE_FUNC" ->
             <<"L", "O", "G", "_", "A", "F", "T", "E", "R", "_", "U", "P", "D", "A", "T", "E", "_", "F", "U", "N", "C">>
      [] attr = "LOG_AFTER_DELETE_FUNC" ->
             <<"L", "O", "G", "_", "A", "F", "T", "E", "R", "_", "D", "E", "L", "E", "T", "E", "_", "F", "U", "N", "C">>
      [] attr = "FUNC_EXISTS_CHECK" ->
             <<"F", "U", "N", "C", "_", "E", "X", "I", "S", "T", "S", "_", "C", "H", "E", "C", "K">>

UpperCase == <<"A", "B", "C", "D", "E", "F", "G", "H", "I", "J", "K", "L", "M", "N", "O", "P", "Q", "R", "S", "T", "U", "V", "W", "X", "Y", "Z">>
LowerCase == <<"a", "b", "c", "d", "e", "f", "g", "h", "i", "j", "k", "l", "m", "n", "o", "p", "q", "r", "s", "t", "u", "v", "w", "x", "y", "z">>
LowerChar(ch) ==
    IF \E i \in 1..Len(UpperCase) : UpperCase[i] = ch
    THEN LowerCase[CHOOSE i \in 1..Len(UpperCase) : UpperCase[i] = ch]
    ELSE ch
\* str.lower()
Lower(str) == [i \in 1..Len(str) |-> LowerChar(str[i])]

\* str.startswith, str.endswith, str.split(sub)[0]
StartsWith(str, prefix) ==
    Len(str) >= Len(prefix) /\ SubSeq(str, 1, Len(prefix)) = prefix
EndsWith(str, suffix) ==
    Len(str) >= Len(suffix) /\ SubSeq(str, Len(str) - Len(suffix) + 1, Len(str)) = suffix
FoundAt(str, sub) ==
    {i \in 1..(Len(str) - Len(sub) + 1) : SubSeq(str, i, i + Len(sub) - 1) = sub}
BeforeFirst(str, sub) ==
    IF FoundAt(str, sub) = {} THEN str
    ELSE SubSeq(str, 1, (CHOOSE i \in FoundAt(str, sub) :
                            \A j \in FoundAt(str, sub) : i <= j) - 1)

ATTR_SUFFIX == <<"_", "F", "U", "N", "C">>
ATTR_PREFIX == <<"L", "O", "G", "_", "A", "F", "T", "E", "R", "_">>

\* PostgresHelperTT._is_func_attr
is_func_attr(name) == StartsWith(name, ATTR_PREFIX) /\ EndsWith(name, ATTR_SUFFIX)

\* PostgresHelperTT._format_func_name: ''.join(name.split('_FUNC')[0].lower())
format_func_name(attr) == Lower(BeforeFirst(Spelling(attr), ATTR_SUFFIX))

\* the class attributes, in the order self.__dir__() gives them
ClassAttrs ==
    <<"AUDIT_LOG_CREATE_TABLE", "AUDIT_LOG_CREATED_CHECK", "HAS_TRIGGER_CHECK",
      "GET_COLUMN_NAMES", "INSERT_TRIGGER", "UPDATE_TRIGGER", "DELETE_TRIGGER",
      "LOG_AFTER_INSERT_FUNC", "LOG_AFTER_UPDATE_FUNC", "LOG_AFTER_DELETE_FUNC",
      "FUNC_EXISTS_CHECK">>
IsFuncAttr(attr) == is_func_attr(Spelling(attr))

\* self._psql_function_attrs_func_name: the attribute names kept
FunctionAttrs == SelectSeq(ClassAttrs, IsFuncAttr)
FunctionAttrSet == {FunctionAttrs[i] : i \in 1..Len(FunctionAttrs)}
\* the (attribute, function name) pairs of self._psql_function_attrs_func_name
FuncNameOf == [i \in 1..Len(FunctionAttrs) |-> format_func_name(FunctionAttrs[i])]
FunctionNames == {FuncNameOf[i] : i \in 1..Len(FunctionAttrs)}

\* FUNC_EXISTS_CHECK: SELECT EXISTS (...), one row of one boolean
FuncExistsRows(d, func_name) == PyList(<<PyTuple(<<PyBool(func_name \in d.functions)>>)>>)

\* a check that reports every function as there
exists_always(d, func_name) == TRUE

\* exists = bool(self.query_results) after the check went through query
exists(d, func_name) == Truthy(normalize_single_result(FuncExistsRows(d, func_name)))

\* the statements of one function: its check, then its DDL when absent
FunctionStatements(d, f) ==
    <<Statement("FUNC_EXISTS_CHECK", f[2], FALSE)>>
        \o (IF exists(d, f[2]) THEN <<>> ELSE <<Statement(f[1], f[2], TRUE)>>)

\* PostgresHelperTT._check_or_create_functions
check_or_create_functions(d) ==
    Flatten([i \in 1..Len(FunctionAttrs) |->
                FunctionStatements(d, <<FunctionAttrs[i], FuncNameOf[i]>>)])

\* every statement the constructor of a tracking helper issues once the gate
\* is passed: the tracker's, then (PostgresHelperTT) the functions'
ProvisioningStatements(k, d) ==
    TrackerStatements(k, d)
        \o (IF k.dialect = "Postgres" THEN check_or_create_functions(d) ELSE <<>>)

S_log_after_insert == <<"l", "o", "g", "_", "a", "f", "t", "e", "r", "_", "i", "n", "s", "e", "r", "t">>
S_log_after_update == <<"l", "o", "g", "_", "a", "f", "t", "e", "r", "_", "u", "p", "d", "a", "t", "e">>
S_log_after_delete == <<"l", "o", "g", "_", "a", "f", "t", "e", "r", "_", "d", "e", "l", "e", "t", "e">>

\* the function a Postgres trigger executes
TriggerFunction(role) ==
    CASE role = "INSERT_TRIGGER" -> S_log_after_insert
      [] role = "UPDATE_TRIGGER" -> S_log_after_update
      [] role = "DELETE_TRIGGER" -> S_log_after_delete

\* the database refuses to create a table or a trigger it already holds, and
\* (Postgres) a trigger that executes a function it does not hold;
\* CREATE OR REPLACE FUNCTION is never refused
Rejected(dl, d, s) ==
    \/ s.role = "AUDIT_LOG_CREATE_TABLE" /\ d.audit
    \/ \E i \in 1..Len(TriggerRoles) :
           /\ s.role = TriggerRoles[i]
           /\ \/ <<s.about, TriggerOp(s.role)>> \in d.triggers
              \/ dl = "Postgres" /\ TriggerFunction(s.role) \notin d.functions

\* the database once statement s is committed
Committed(d, s) ==
    CASE s.role = "AUDIT_LOG_CREATE_TABLE" -> [d EXCEPT !.audit = TRUE]
      [] s.role \in {TriggerRoles[i] : i \in 1..Len(TriggerRoles)} ->
             [d EXCEPT !.triggers = @ \cup {<<s.about, TriggerOp(s.role)>>}]
      [] s.role \in FunctionAttrSet ->
             [d EXCEPT !.functions = @ \cup {s.about}]
      [] OTHER -> d

\* the driver's exception: it carries no statement and no cause
DriverError == [cls |-> "DriverError", stmt |-> NoStatement, cause |-> "none"]

\* a function's DDL goes through query(..., is_commit=True), whose fetchall
\* comes before its commit: the statement leaves no result set, the driver
\* raises, and the function is not committed
NoResultSet(dl, s) ==
    /\ s.role \in FunctionAttrSet
    /\ FetchallRaises(dl, [kind |-> "ddl", cols |-> <<>>, n |-> 0])

\* the statements are sent through query one after the other; the one at
\* faultAt (0: none) makes the driver raise, as does one the database
\* refuses or one whose fetchall raises, and nothing after it runs
RECURSIVE RunStatements(_, _, _, _, _)
RunStatements(dl, d, stmts, i, faultAt) ==
    IF i > Len(stmts) THEN [db |-> d, n |-> Len(stmts), raised |-> FALSE]
    ELSE IF i = faultAt \/ Rejected(dl, d, stmts[i]) \/ NoResultSet(dl, stmts[i])
         THEN [db |-> d, n |-> i, raised |-> TRUE]
         ELSE RunStatements(dl, Committed(d, stmts[i]), stmts, i + 1, faultAt)

LogEntry(before, after, err, injected, issued) ==
    [before |-> before, after |-> after, err |-> err, injected |-> injected,
     issued |-> issued]

\* instantiating klass
Construct ==
    /\ built.runs < MaxRuns
    /\ LET gate == AttributeContract(klass)
           stmts == ProvisioningStatements(klass, db)
       IN  IF gate.err # "none"
           THEN /\ built' = [NotBuilt EXCEPT !.done = TRUE, !.runs = built.runs + 1,
                                             !.err = gate.err, !.missing = gate.missing,
                                             !.log = Append(built.log,
                                                 LogEntry(db, db, gate.err, FALSE, <<>>))]
                /\ db' = db
           ELSE \E faultAt \in 0..Len(stmts) :
                  LET run == RunStatements(klass.dialect, db, stmts, 1, faultAt)
                      err == log_and_raise_error(DriverError)
                  IN  /\ built' = [NotBuilt EXCEPT
                                      !.done = TRUE, !.runs = built.runs + 1,
                                      !.connected = TRUE,
                                      !.issued = SubSeq(stmts, 1, run.n),
                                      !.injected = (faultAt # 0),
                                      !.err = IF run.raised THEN err.cls ELSE "none",
                                      !.failed = IF run.raised THEN stmts[run.n]
                                                 ELSE NoStatement,
                                      !.carried = IF run.raised
                                                  THEN [stmt |-> err.stmt, cause |-> err.cause]
                                                  ELSE NotBuilt.carried,
                                      !.log = Append(built.log,
                                          LogEntry(db, run.db,
                                                   IF run.raised THEN err.cls ELSE "none",
                                                   faultAt # 0, SubSeq(stmts, 1, run.n)))]
                      /\ db' = run.db
    /\ UNCHANGED <<klass, instanceVars, normVars, codecVars, targetVars>>

\* a Postgres database holds the function of every trigger it holds
Consistent(dl, triggers, functions) ==
    dl = "Postgres" =>
        \A tr \in triggers :
            \E i \in 1..Len(TriggerRoles) :
                /\ TriggerOp(TriggerRoles[i]) = tr[2]
                /\ TriggerFunction(TriggerRoles[i]) \in functions

\* the template catalogs that lack at most MaxMissing required roles
Catalogs(d) ==
    UNION { { [r \in AllRoles |->
                  IF r \in lacking THEN marks[r]
                  ELSE IF r \in RequiredRoles(d) THEN "sql" ELSE "absent"] :
                marks \in [lacking -> {"absent", "placeholder"}] } :
            lacking \in {x \in SUBSET RequiredRoles(d) : Cardinality(x) <= MaxMissing} }

InitContract ==
    /\ InstanceInit
    /\ dialect = "SQLite3"
    /\ NormIdle
    /\ TargetIdle
    /\ \E d \in TrackingDialects :
         /\ \E c \in Catalogs(d), ts \in TrackedSets :
                klass = [dialect |-> d, catalog |-> c, tables |-> ts]
         /\ \E a \in BOOLEAN, tr \in {{}, {"test_table"} \X TriggerOps},
               f \in (IF d = "Postgres" THEN SUBSET FunctionNames ELSE {{}}) :
                /\ Consistent(d, tr, f)
                /\ db = [audit |-> a, triggers |-> tr, functions |-> f]
    /\ built = NotBuilt
    /\ CodecIdle

NextContract == Construct

SpecContract == InitContract /\ [][NextContract]_vars

(***************************************************************************)
(* Provisioning: a tracking helper class with a complete catalog,          *)
(* instantiated up to MaxRuns times against a target database that holds   *)
(* any part of the audit objects.                                          *)
(***************************************************************************)
CompleteCatalog(d) == [r \in AllRoles |-> IF r \in RequiredRoles(d) THEN "sql" ELSE "absent"]

InitProvision ==
    /\ InstanceInit
    /\ dialect = "SQLite3"
    /\ NormIdle
    /\ TargetIdle
    /\ \E d \in TrackingDialects :
         /\ \E ts \in TrackedSets :
                klass = [dialect |-> d, catalog |-> CompleteCatalog(d), tables |-> ts]
         /\ \E a \in BOOLEAN, tr \in SUBSET ({"test_table"} \X TriggerOps),
               f \in (IF d = "Postgres" THEN SUBSET FunctionNames ELSE {{}}) :
                /\ Consistent(d, tr, f)
                /\ db = [audit |-> a, triggers |-> tr, functions |-> f]
    /\ built = NotBuilt
    /\ CodecIdle

NextProvision == Construct

SpecProvision == InitProvision /\ [][NextProvision]_vars

(***************************************************************************)
(* The audit triggers at work: row statements on the tracked table of a    *)
(* database that holds any part of the audit objects.  A trigger is FOR    *)
(* EACH ROW (the only kind SQLite has); a statement whose trigger cannot   *)
(* write its audit row fails as a whole.                                   *)
(***************************************************************************)
RowIds == {1, 2}
Cells == {"a", "b"}
SqlNull == [t |-> "NULL"]
NoRow == [t |-> "norow"]
TableRow(id, cell) == [id |-> id, cell |-> cell]

\* row_to_json(row)::jsonb; the {old_row_json}, {new_row_json} of SQLite
row_to_json(row) == [t |-> "json", row |-> row]

AuditRow(table_name, operation, old_row_data, new_row_data) ==
    [table_name |-> table_name, operation |-> operation,
     old_row_data |-> old_row_data, new_row_data |-> new_row_data]

\* a delete trigger that records the row under new_row_data
log_after_delete_as_new(TG_TABLE_NAME, Old, New) ==
    AuditRow(TG_TABLE_NAME, "DELETE", SqlNull, row_to_json(Old))

\* the bodies of LOG_AFTER_*_FUNC (Postgres) and of *_TRIGGER (SQLite)
log_after_insert(TG_TABLE_NAME, Old, New) ==
    AuditRow(TG_TABLE_NAME, "INSERT", SqlNull, row_to_json(New))
log_after_update(TG_TABLE_NAME, Old, New) ==
    AuditRow(TG_TABLE_NAME, "UPDATE", row_to_json(Old), row_to_json(New))
log_after_delete(TG_TABLE_NAME, Old, New) ==
    AuditRow(TG_TABLE_NAME, "DELETE", row_to_json(Old), SqlNull)

TriggerBody(op, table, Old, New) ==
    CASE op = "insert" -> log_after_insert(table, Old, New)
      [] op = "update" -> log_after_update(table, Old, New)
      [] op = "delete" -> log_after_delete(table, Old, New)

\* the rows a statement touches, lowest id first, each with its old and new row
RECURSIVE Touched(_, _, _)
Touched(ids, olds, news) ==
    IF ids = {} THEN <<>>
    ELSE LET id == CHOOSE i \in ids : \A j \in ids : i <= j
         IN  << [old |-> olds[id], new |-> news[id]] >>
                 \o Touched(ids \ {id}, olds, news)

\* AFTER <op> ON table: the audit rows the statement's trigger writes
Fired(d, op, table, rows) ==
    IF <<table, op>> \in d.triggers
    THEN [i \in 1..Len(rows) |-> TriggerBody(op, table, rows[i].old, rows[i].new)]
    ELSE <<>>

\* the trigger's INSERT INTO audit_log fails when there is no such table
TriggerFails(d, op, table, rows) ==
    /\ <<table, op>> \in d.triggers
    /\ rows # <<>>
    /\ ~d.audit

\* one statement on the tracked table: news gives the rows it writes
RowStatement(op, ids, news) ==
    LET table == klass.tables[1]
        olds == [id \in RowIds |-> IF tracked[id] = "absent" THEN NoRow
                                    ELSE TableRow(id, tracked[id])]
        rows == Touched(ids, olds, news)
        fails == TriggerFails(db, op, table, rows)
        fired == Fired(db, op, table, rows)
    IN  /\ Len(audit_log) + Cardinality(ids) <= MaxAudit
        /\ tracked' = IF fails THEN tracked
                      ELSE [id \in RowIds |->
                               IF id \notin ids THEN tracked[id]
                               ELSE IF news[id] = NoRow THEN "absent" ELSE news[id].cell]
        /\ audit_log' = IF fails THEN audit_log ELSE audit_log \o fired
        /\ dml' = [op |-> op, table |-> table, rows |-> rows, raised |-> fails,
                   before |-> audit_log]
        /\ UNCHANGED <<instanceVars, normVars, contractVars, codecVars, procs, pg>>

\* INSERT INTO test_table VALUES (...), (...)
InsertRows ==
    \E ids \in SUBSET {id \in RowIds : tracked[id] = "absent"} :
        /\ ids # {}
        /\ RowStatement("insert", ids, [id \in RowIds |-> TableRow(id, "a")])

\* UPDATE test_table SET cell = ... WHERE ...
UpdateRows ==
    \E ids \in SUBSET {id \in RowIds : tracked[id] # "absent"} : \E cell \in Cells :
        RowStatement("update", ids, [id \in RowIds |-> TableRow(id, cell)])

\* DELETE FROM test_table WHERE ...
DeleteRows ==
    \E ids \in SUBSET {id \in RowIds : tracked[id] # "absent"} :
        RowStatement("delete", ids, [id \in RowIds |-> NoRow])

\* the triggers the tracked table has when the statements start
InstalledOps == { {}, {"insert"}, {"insert", "update"}, TriggerOps }

InitAudit ==
    /\ InstanceInit
    /\ dialect = "SQLite3"
    /\ NormIdle
    /\ CodecIdle
    /\ \E d \in {"Postgres", "SQLite3"} :
         /\ klass = [dialect |-> d, catalog |-> CompleteCatalog(d), tables |-> <<"test_table">>]
         /\ \E a \in BOOLEAN, ops \in InstalledOps :
                db = [audit |-> a, triggers |-> {"test_table"} \X ops,
                      functions |-> IF d = "Postgres" THEN FunctionNames ELSE {}]
    /\ built = NotBuilt
    /\ tracked = [id \in RowIds |-> "absent"]
    /\ audit_log = <<>>
    /\ dml = NoDml
    /\ procs = <<>>
    /\ pg = NoPg

NextAudit ==
    \/ InsertRows
    \/ UpdateRows
    \/ DeleteRows

SpecAudit == InitAudit /\ [][NextAudit]_vars

(***************************************************************************)
(* Two PostgresHelperTT instances running _check_or_create_functions side  *)
(* by side against one database.  Each runs the loop in its own session:   *)
(* one step sends a function's check through query, a later step sends the *)
(* function's DDL.                                                         *)
(***************************************************************************)
Instances2 == {1, 2}

\* an instance: the function it is at, the step it is at, what its checks
\* reported and what the database held when they ran, the DDL it has sent;
\* between: its check of a function ran while another instance was between
\* its own check of that function and the DDL
NewProc == [k |-> 1, pc |-> "check", reported |-> <<>>, held |-> <<>>,
            ddl |-> <<>>, err |-> "none", between |-> {}]

\* for f in self._psql_function_attrs_func_name: the next function, or the end
NextFunction(p) ==
    IF p.k = Len(FunctionAttrs) THEN [p EXCEPT !.pc = "done"]
    ELSE [p EXCEPT !.k = p.k + 1, !.pc = "check"]

\* self.query(sql_q, silent_process=True); exists = bool(self.query_results)
CheckFunction(i) ==
    /\ procs[i].pc = "check"
    /\ LET p == procs[i]
           name == FuncNameOf[p.k]
           found == exists(db, name)
           q == [p EXCEPT !.reported = Append(@, found),
                          !.held = Append(@, name \in db.functions),
                          !.between = @ \cup
                              (IF \E j \in Instances2 \ {i} :
                                     procs[j].pc = "create" /\ procs[j].k = p.k
                               THEN {p.k} ELSE {})]
       IN  procs' = [procs EXCEPT ![i] = IF found THEN NextFunction(q)
                                         ELSE [q EXCEPT !.pc = "create"]]
    /\ UNCHANGED <<db, klass, built, instanceVars, normVars, codecVars, auditVars, pg>>

\* if not exists: self.query(getattr(self.__class__, f[0]), is_commit=True)
CreateFunction(i) ==
    /\ procs[i].pc = "create"
    /\ LET p == procs[i]
           stmt == Statement(FunctionAttrs[p.k], FuncNameOf[p.k], TRUE)
           q == [p EXCEPT !.ddl = Append(@, stmt)]
       IN  IF NoResultSet(klass.dialect, stmt)
           THEN /\ procs' = [procs EXCEPT
                                ![i] = [q EXCEPT !.pc = "done",
                                                 !.err = log_and_raise_error(DriverError).cls]]
                /\ db' = db
           ELSE /\ procs' = [procs EXCEPT ![i] = NextFunction(q)]
                /\ db' = Committed(db, stmt)
    /\ UNCHANGED <<klass, built, instanceVars, normVars, codecVars, auditVars, pg>>

InitRace ==
    /\ InstanceInit
    /\ dialect = "SQLite3"
    /\ NormIdle
    /\ CodecIdle
    /\ AuditIdle
    /\ pg = NoPg
    /\ klass = [dialect |-> "Postgres", catalog |-> CompleteCatalog("Postgres"),
                tables |-> <<"test_table">>]
    /\ \E a \in BOOLEAN, f \in SUBSET FunctionNames :
          db = [audit |-> a, triggers |-> {}, functions |-> f]
    /\ built = NotBuilt
    /\ procs = [i \in Instances2 |-> NewProc]

NextRace ==
    \/ \E i \in Instances2 : CheckFunction(i)
    \/ \E i \in Instances2 : CreateFunction(i)

SpecRace == InitRace /\ [][NextRace]_vars

(***************************************************************************)
(* PostgresHelper.schema_choice: the instance asks the server for its      *)
(* schemas once, keeps the answer, and accepts a schema_choice that is in  *)
(* it.                                                                     *)
(***************************************************************************)
S_public == <<"p", "u", "b", "l", "i", "c">>
DEFAULT_SCHEMA_CHOICE == PyStr(S_public)
SchemaNames == {S_public, <<"p">>, <<"s">>}

\* the schema lists a server gives: 1 to MaxSchemas distinct names
SchemaLists ==
    UNION { {names \in [1..n -> SchemaNames] :
                \A i, j \in 1..n : names[i] = names[j] => i = j} : n \in 1..MaxSchemas }

\* the values assigned to schema_choice
SchemaValues == {PyStr(n) : n \in SchemaNames} \cup {PyStr(<<"u">>)}

\* cursor.fetchall() of VALID_SCHEMA_CHOICES_QUERY: one one-column row a schema
SchemaRows(names) == PyList([i \in 1..Len(names) |-> PyTuple(<<PyStr(names[i])>>)])

\* x[0]
FirstOf(x) == IF x.t = "str" THEN PyStr(<<x.v[1]>>) ELSE x.v[1]

\* value in a_list
In(value, a_list) == \E i \in 1..Len(a_list.v) : a_list.v[i] = value

\* the valid_schema_choices property: what it returns (and keeps in
\* self._valid_schema_choices), and self.query_results after it
valid_schema_choices(h) ==
    IF Truthy(h.valid) THEN [valid |-> h.valid, query_results |-> h.query_results]
    ELSE LET res == normalize_single_result(SchemaRows(h.schemas))
         IN  [valid |-> IF Truthy(res)
                        THEN PyList([i \in 1..Len(IterItems(res)) |->
                                        FirstOf(IterItems(res)[i])])
                        ELSE h.valid,
              query_results |-> res]

\* the schema_choice setter
set_schema_choice(h, value) ==
    LET got == valid_schema_choices(h)
        kept == [h EXCEPT !.valid = got.valid, !.query_results = got.query_results]
    IN  IF In(value, got.valid)
        THEN [kept EXCEPT !.schema_choice = value,
                          !.last = [value |-> value, raised |-> "none",
                                    before |-> h.schema_choice]]
        ELSE [kept EXCEPT !.last = [value |-> value, raised |-> "ValueError",
                                    before |-> h.schema_choice]]

\* kwargs.get(key, default)
KwargsGet(kwargs, key, default) == IF key \in DOMAIN kwargs THEN kwargs[key] ELSE default

\* the functions of one schema, as FUNC_EXISTS_CHECK with n.nspname sees them
InSchema(h, schema) ==
    [functions |-> {f[2] : f \in {g \in h.functions : g[1] = schema}}]

\* schema_choice = kwargs.get('schema_choice', cls._DEFAULT_SCHEMA_CHOICE)
check_schema(h, kwargs) == KwargsGet(kwargs, "schema_choice", DEFAULT_SCHEMA_CHOICE)

\* PostgresHelperTT._check_or_create_functions(**kwargs), from function k on:
\* the check of each function in check_schema, and the DDL of one found
\* absent. The DDL names no schema and _add_schema_to_query leaves it as it
\* is, so the function lands in the schema the connection creates in.
RECURSIVE CheckOrCreateFrom(_, _, _)
CheckOrCreateFrom(h, kwargs, k) ==
    IF k > Len(FunctionAttrs) THEN h
    ELSE LET schema == check_schema(h, kwargs).v
             check == [role |-> "FUNC_EXISTS_CHECK", about |-> FuncNameOf[k],
                       schema |-> schema]
             ddl == Statement(FunctionAttrs[k], FuncNameOf[k], TRUE)
             asked == [h EXCEPT !.sent = Append(@, check),
                                !.query_results =
                                    normalize_single_result(
                                        FuncExistsRows(InSchema(h, schema), FuncNameOf[k]))]
             told == [asked EXCEPT !.sent = Append(@, [role |-> ddl.role,
                                                       about |-> ddl.about,
                                                       schema |-> h.search_path])]
         IN  IF exists(InSchema(h, schema), FuncNameOf[k])
             THEN CheckOrCreateFrom(asked, kwargs, k + 1)
             ELSE IF NoResultSet("Postgres", ddl)
                  THEN [told EXCEPT !.err = log_and_raise_error(DriverError).cls]
                  ELSE CheckOrCreateFrom(
                           [told EXCEPT !.functions =
                                            @ \cup {<<h.search_path, FuncNameOf[k]>>}],
                           kwargs, k + 1)

\* PostgresHelper.__init__ up to initialize_schema_choices, which assigns
\* kwargs.get('schema_choice', 'public'); when the setter raises, so does
\* the constructor
NewPostgresHelper ==
    /\ pg.state = "new"
    /\ \E value \in SchemaValues :
          LET h == set_schema_choice(pg, value)
          IN  pg' = [h EXCEPT !.kind = "PostgresHelper",
                              !.constructed = h.schema_choice,
                              !.state = IF h.last.raised = "none" THEN "built"
                                        ELSE "failed"]
    /\ UNCHANGED <<instanceVars, normVars, contractVars, codecVars, auditVars, procs>>

\* PostgresHelperTT.__init__: the PostgresHelper constructor, then
\* self._check_or_create_functions() with no keyword
NewPostgresHelperTT ==
    /\ pg.state = "new"
    /\ \E value \in SchemaValues :
          LET h == set_schema_choice(pg, value)
              r == IF h.last.raised = "none" THEN CheckOrCreateFrom(h, <<>>, 1) ELSE h
          IN  pg' = [r EXCEPT !.kind = "PostgresHelperTT",
                              !.constructed = h.schema_choice,
                              !.state = IF h.last.raised = "none" /\ r.err = "none"
                                        THEN "built" ELSE "failed"]
    /\ UNCHANGED <<instanceVars, normVars, contractVars, codecVars, auditVars, procs>>

\* instance.schema_choice = value
SetSchemaChoice ==
    /\ pg.state = "built"
    /\ \E value \in SchemaValues : pg' = set_schema_choice(pg, value)
    /\ UNCHANGED <<instanceVars, normVars, contractVars, codecVars, auditVars, procs>>

InitSchema ==
    /\ InstanceInit
    /\ dialect = "SQLite3"
    /\ NormIdle
    /\ ContractIdle
    /\ CodecIdle
    /\ AuditIdle
    /\ procs = <<>>
    /\ \E names \in SchemaLists :
          \E held \in [1..Len(names) -> {{}, {S_log_after_insert}, FunctionNames}],
             first \in 1..Len(names) :
            pg = [state |-> "new", kind |-> "none", schemas |-> names,
                  functions |-> UNION { {<<names[i], f>> : f \in held[i]} :
                                           i \in 1..Len(names) },
                  search_path |-> names[first],
                  valid |-> PyNone, schema_choice |-> PyNone, constructed |-> PyNone,
                  query_results |-> PyNone, sent |-> <<>>, err |-> "none",
                  last |-> [value |-> PyNone, raised |-> "none", before |-> PyNone]]

NextSchema ==
    \/ NewPostgresHelper
    \/ NewPostgresHelperTT
    \/ SetSchemaChoice

SpecSchema == InitSchema /\ [][NextSchema]_vars

(***************************************************************************)
(* Connection attributes and their connection string.  A string is the     *)
(* sequence of its characters.                                             *)
(***************************************************************************)
\* str.split(sep) for a one-character sep: the pieces between the
\* occurrences of sep, one more than there are occurrences
Split(str, sep) ==
    LET at == {i \in 1..Len(str) : str[i] = sep}
        n == Cardinality(at)
        cut(k) == IF k = 0 THEN 0
                  ELSE IF k = n + 1 THEN Len(str) + 1
                  ELSE CHOOSE i \in at : Cardinality({j \in at : j < i}) = k - 1
    IN  [k \in 1..(n + 1) |-> SubSeq(str, cut(k - 1) + 1, cut(k) - 1)]

S_driver == <<"d", "r", "i", "v", "e", "r">>
S_server == <<"s", "e", "r", "v", "e", "r">>
S_instance == <<"i", "n", "s", "t", "a", "n", "c", "e">>
S_database == <<"d", "a", "t", "a", "b", "a", "s", "e">>
S_username == <<"u", "s", "e", "r", "n", "a", "m", "e">>
S_password == <<"p", "a", "s", "s", "w", "o", "r", "d">>
S_UID == <<"U", "I", "D">>
S_PWD == <<"P", "W", "D">>
S_trusted_connection == <<"t", "r", "u", "s", "t", "e", "d", "_", "c", "o", "n", "n", "e", "c", "t", "i", "o", "n">>
S_None == <<"N", "o", "n", "e">>
S_yes == <<"y", "e", "s">>
TRUSTED_CONNECTION_DEFAULT == PyStr(S_yes)
INSTANCE_DEFAULT == PyStr(<<"S", "Q", "L", "E", "X", "P", "R", "E", "S", "S">>)
DRIVER_DEFAULT == PyNone
SQLSERVER_DRIVER_DEFAULT == PyStr(<<"{", "S", "Q", "L", " ", "S", "e", "r", "v", "e", "r", "}">>)
WITHHELD == PyStr(<<"W", "I", "T", "H", "H", "E", "L", "D", " ", "o", "r", " ", "N", "o", "n", "e">>)

\* an attribute the class does not have
NoAttr == [t |-> "noattr"]

\* f"{value}"
Format(value) == IF value.t = "None" THEN S_None ELSE value.v

NoError == [cls |-> "none", msg |-> "none"]
Error(cls, msg) == [cls |-> cls, msg |-> msg]
RequiredError == Error("AttributeError", "connection_string is required")

\* a dict of keyword arguments: pairs <<key, value>> with distinct keys
HasKey(pairs, key) == \E i \in 1..Len(pairs) : pairs[i][1] = key
Get(pairs, key, default) ==
    IF HasKey(pairs, key)
    THEN pairs[CHOOSE i \in 1..Len(pairs) : pairs[i][1] = key][2]
    ELSE default
\* d[key] = value
Put(pairs, key, value) ==
    IF HasKey(pairs, key)
    THEN [i \in 1..Len(pairs) |-> IF pairs[i][1] = key THEN <<key, value>> ELSE pairs[i]]
    ELSE Append(pairs, <<key, value>>)
\* {k: v for ...}: a later entry replaces an earlier one of the same key
RECURSIVE DictOf(_, _)
DictOf(entries, i) ==
    IF i = 0 THEN <<>>
    ELSE Put(DictOf(entries, i - 1), entries[i][1], entries[i][2])

S_port == <<"p", "o", "r", "t">>

\* all(values)
All(values) == \A i \in 1..Len(values) : Truthy(values[i])

\* the attributes connection_string needs: _BaseConnectionAttributes asks
\* for server, instance, database, driver; SQLServerHelper for server,
\* database, driver, trusted_connection
RequiredAttrs(a) ==
    IF a.kind = "SQLServer" THEN <<a.server, a.database, a.driver, a.trusted_connection>>
    ELSE <<a.server, a.instance, a.database, a.driver>>

\* the f-string of connection_string
BuiltString(a) ==
    IF a.kind = "SQLServer"
    THEN S_driver \o <<":">> \o Format(a.driver) \o <<";">>
           \o S_server \o <<"=">> \o Format(a.server) \o <<";">>
           \o S_database \o <<"=">> \o Format(a.database) \o <<";">>
           \o S_trusted_connection \o <<"=">> \o Format(a.trusted_connection)
    ELSE S_driver \o <<"=">> \o Format(a.driver) \o <<";">>
           \o S_server \o <<"=">> \o Format(a.server) \o <<"\\">> \o Format(a.instance) \o <<";">>
           \o S_database \o <<"=">> \o Format(a.database) \o <<";">>
           \o S_UID \o <<"=">> \o Format(a.username) \o <<";">>
           \o S_PWD \o <<"=">> \o Format(a.password) \o <<";">>
           \o S_trusted_connection \o <<"=">> \o Format(a.trusted_connection)

\* a connection_string that builds the string once and then keeps it
connection_string_memoized(a) ==
    IF a.cached = PyNone /\ All(RequiredAttrs(a))
    THEN [ret |-> PyStr(BuiltString(a)), cached |-> PyStr(BuiltString(a))]
    ELSE [ret |-> a.cached, cached |-> a.cached]

\* the connection_string property: what it returns and what it leaves in
\* self._connection_string
connection_string(a) ==
    IF All(RequiredAttrs(a))
    THEN [ret |-> PyStr(BuiltString(a)), cached |-> PyStr(BuiltString(a))]
    ELSE [ret |-> a.cached, cached |-> a.cached]

\* a connection_information that shows the password
connection_information_plain(a) ==
    IF a.kind = "SQLServer"
    THEN [t |-> "tuple", v |-> <<a.server, a.database, a.driver, a.trusted_connection>>]
    ELSE [t |-> "dict", server |-> a.server, instance |-> a.instance,
          database |-> a.database, driver |-> a.driver, username |-> a.username,
          password |-> a.password, trusted_connection |-> a.trusted_connection]

\* the connection_information property: a dict (a tuple in SQLServerHelper)
connection_information(a) ==
    IF a.kind = "SQLServer"
    THEN [t |-> "tuple", v |-> <<a.server, a.database, a.driver, a.trusted_connection>>]
    ELSE [t |-> "dict", server |-> a.server, instance |-> a.instance,
          database |-> a.database, driver |-> a.driver, username |-> a.username,
          password |-> WITHHELD, trusted_connection |-> a.trusted_connection]

\* {x.split(kv)[0].lower(): x.split(kv)[1] for x in connection_string.split(attr)}
ParseAttributes(str, attr_split_char, key_value_split_char) ==
    LET pieces == Split(str, attr_split_char)
        parts == [i \in 1..Len(pieces) |-> Split(pieces[i], key_value_split_char)]
    IN  IF \E i \in 1..Len(pieces) : Len(parts[i]) < 2
        THEN [raised |-> Error("IndexError", "list index out of range"), ret |-> <<>>]
        ELSE [raised |-> NoError,
              ret |-> DictOf([i \in 1..Len(pieces) |->
                                 <<Lower(parts[i][1]), PyStr(parts[i][2])>>], Len(pieces))]

\* _BaseConnectionAttributes._connection_string_to_attributes
connection_string_to_attributes(str, attr_split_char, key_value_split_char) ==
    LET parsed == ParseAttributes(str, attr_split_char, key_value_split_char)
    IN  IF parsed.raised # NoError THEN parsed
        ELSE IF ~HasKey(parsed.ret, S_server)
        THEN [raised |-> Error("AttributeError", "'NoneType' object has no attribute 'split'"),
              ret |-> <<>>]
        ELSE LET sv == Split(Get(parsed.ret, S_server, PyNone).v, "\\")
             IN  [raised |-> NoError,
                  ret |-> IF Len(sv) = 2
                          THEN Put(Put(parsed.ret, S_server, PyStr(sv[1])),
                                   S_instance, PyStr(sv[2]))
                          ELSE parsed.ret]

\* _BaseConnectionAttributes.__init__ called with the keyword arguments kw
\* (no connection_string among them): the attributes are assigned, then the
\* debug message joins every connection_information value, which raises
\* TypeError on a value that is no str
BaseInit(kw) ==
    IF ~HasKey(kw, S_server) \/ ~HasKey(kw, S_database)
    THEN [raised |-> Error("TypeError", "missing required positional argument"),
          obj |-> NoAttrs]
    ELSE LET obj == [kind |-> "Base",
                     server |-> Get(kw, S_server, PyNone),
                     instance |-> Get(kw, S_instance, INSTANCE_DEFAULT),
                     database |-> Get(kw, S_database, PyNone),
                     driver |-> Get(kw, S_driver, DRIVER_DEFAULT),
                     username |-> Get(kw, S_username, PyStr(<<>>)),
                     password |-> Get(kw, S_password, PyStr(<<>>)),
                     port |-> Get(kw, S_port, PyInt(0)),
                     trusted_connection |->
                         Get(kw, S_trusted_connection, TRUSTED_CONNECTION_DEFAULT),
                     cached |-> PyNone]
             logged == <<obj.server, obj.instance, obj.database, obj.driver,
                         obj.username, obj.trusted_connection>>
         IN  IF \E i \in 1..Len(logged) : logged[i].t # "str"
             THEN [raised |-> Error("TypeError", "expected str instance"), obj |-> NoAttrs]
             ELSE [raised |-> NoError, obj |-> obj]

\* SQLServerHelper.__init__ called with the keyword arguments kw
SQLServerInit(kw) ==
    [raised |-> NoError,
     obj |-> [kind |-> "SQLServer",
              server |-> Get(kw, S_server, PyNone),
              instance |-> NoAttr,
              database |-> Get(kw, S_database, PyNone),
              driver |-> Get(kw, S_driver, SQLSERVER_DRIVER_DEFAULT),
              username |-> NoAttr,
              password |-> NoAttr,
              port |-> NoAttr,
              trusted_connection |->
                  Get(kw, S_trusted_connection, TRUSTED_CONNECTION_DEFAULT),
              cached |-> PyNone]]

\* a guard that lets the empty string through
connection_string_is_none(cs) == cs = PyNone

\* if not connection_string
connection_string_missing(cs) == ~Truthy(cs)

\* cls.with_connection_string(connection_string) with the default delimiters
with_connection_string(kind, cs) ==
    IF connection_string_missing(cs)
    THEN [raised |-> RequiredError, parsed |-> FALSE, obj |-> NoAttrs]
    ELSE LET dec == IF kind = "SQLServer" THEN ParseAttributes(cs.v, ";", "=")
                    ELSE connection_string_to_attributes(cs.v, ";", "=")
             new == IF kind = "SQLServer" THEN SQLServerInit(dec.ret) ELSE BaseInit(dec.ret)
         IN  IF dec.raised # NoError
             THEN [raised |-> dec.raised, parsed |-> TRUE, obj |-> NoAttrs]
             ELSE [raised |-> new.raised, parsed |-> TRUE, obj |-> new.obj]

\* _BaseConnectionAttributes.__init__ called with the keyword arguments kw and
\* connection_string=cs: the string is handed to with_connection_string, whose
\* instance is not kept; the attributes are then assigned from kw
\* how __init__ ends, given the inner call's outcome and the assignments' own
BaseInitOutcome(kw, cs, inner, outer) ==
    IF ~HasKey(kw, S_server) \/ ~HasKey(kw, S_database) THEN outer
    ELSE IF inner.raised # NoError THEN [raised |-> inner.raised, obj |-> NoAttrs]
    ELSE IF outer.raised # NoError THEN outer
    ELSE [raised |-> NoError, obj |-> [outer.obj EXCEPT !.cached = cs]]

BaseInitWithString(kw, cs) ==
    BaseInitOutcome(kw, cs, with_connection_string("Base", cs), BaseInit(kw))

\* SQLServerHelper.__init__ called with the keyword arguments kw and
\* connection_string=cs
\* how SQLServerHelper.__init__ ends, given the inner call's outcome
SQLServerInitOutcome(cs, inner, outer) ==
    IF inner.raised # NoError THEN [raised |-> inner.raised, obj |-> NoAttrs]
    ELSE [raised |-> NoError, obj |-> [outer.obj EXCEPT !.cached = cs]]

SQLServerInitWithString(kw, cs) ==
    SQLServerInitOutcome(cs, with_connection_string("SQLServer", cs), SQLServerInit(kw))

\* values the attributes take
Servers == {PyStr(<<>>), PyStr(<<"s">>), PyStr(<<"s", "\\", "x">>)}
Instances == {PyStr(<<>>), PyStr(<<"i">>)}
Databases == {PyStr(<<>>), PyStr(<<"d">>)}
Drivers == {PyStr(<<>>), PyStr(<<"v">>)}
Usernames == {PyStr(<<>>), PyStr(<<"u">>)}
Passwords == {PyStr(<<>>), PyStr(<<"p">>), PyStr(<<"p", "=", "q">>)}
TrustFlags == {PyStr(<<>>), TRUSTED_CONNECTION_DEFAULT}

\* the attributes assigned after construction, and the values they are given
AttrNames == {"database", "driver"}
Assignable(name) ==
    CASE name = "database" -> Databases \cup {PyStr(<<"e">>)}
      [] name = "driver" -> Drivers \cup {PyNone}

\* connection strings written by hand
HandStrings ==
    { PyStr(<<"s", "e", "r", "v", "e", "r", "=", "s", ";", "d", "a", "t", "a", "b", "a", "s", "e", "=", "d">>),
      PyStr(<<"S", "e", "r", "v", "e", "r", "=", "s", ";", "D", "A", "T", "A", "B", "A", "S", "E", "=", "d", ";", "d", "r", "i", "v", "e", "r", "=", "v">>),
      PyStr(<<"s", "e", "r", "v", "e", "r", "=", "s", ";", "P", "W", "D">>) }

\* strings handed to with_connection_string and to the parser
DecodeInputs(a) ==
    {PyNone, PyStr(<<>>)} \cup HandStrings
        \cup (IF All(RequiredAttrs(a)) THEN {PyStr(BuiltString(a))} ELSE {})

Cx(op, arg, raised, ret, obj, parsed, cachedBefore) ==
    [op |-> op, arg |-> arg, raised |-> raised, ret |-> ret, obj |-> obj,
     parsed |-> parsed, cachedBefore |-> cachedBefore]

\* reading the connection_string property
ReadConnectionString ==
    /\ LET r == connection_string(attrs)
       IN  /\ attrs' = [attrs EXCEPT !.cached = r.cached]
           /\ cx' = Cx("connection_string", PyNone, NoError, r.ret, NoAttrs, FALSE,
                       attrs.cached)
    /\ UNCHANGED <<instanceVars, normVars, contractVars, targetVars>>

\* reading the connection_information property
ReadConnectionInformation ==
    /\ cx' = Cx("connection_information", PyNone, NoError, connection_information(attrs),
                NoAttrs, FALSE, attrs.cached)
    /\ UNCHANGED <<attrs, instanceVars, normVars, contractVars, targetVars>>

\* instance.<name> = value
SetAttr ==
    /\ \E name \in AttrNames : \E value \in Assignable(name) :
          /\ attrs[name] # value
          /\ attrs' = [attrs EXCEPT ![name] = value]
    /\ cx' = Cx("setattr", PyNone, NoError, PyNone, NoAttrs, FALSE, attrs.cached)
    /\ UNCHANGED <<instanceVars, normVars, contractVars, targetVars>>

\* type(instance).with_connection_string(cs)
WithConnectionString ==
    /\ \E cs \in DecodeInputs(attrs) :
          LET r == with_connection_string(attrs.kind, cs)
          IN  cx' = Cx("with_connection_string", cs, r.raised, PyNone, r.obj, r.parsed,
                       attrs.cached)
    /\ UNCHANGED <<attrs, instanceVars, normVars, contractVars, targetVars>>

\* the parse on its own: _connection_string_to_attributes(cs, ';', '='), and
\* the dict comprehension of SQLServerHelper.with_connection_string
ToAttributes ==
    /\ \E cs \in {x \in DecodeInputs(attrs) : x.t = "str"} :
          LET r == IF attrs.kind = "SQLServer" THEN ParseAttributes(cs.v, ";", "=")
                   ELSE connection_string_to_attributes(cs.v, ";", "=")
          IN  cx' = Cx("_connection_string_to_attributes", cs, r.raised, r.ret, NoAttrs,
                       TRUE, attrs.cached)
    /\ UNCHANGED <<attrs, instanceVars, normVars, contractVars, targetVars>>

\* the explicit arguments given next to a connection_string keyword
KeywordArgs(kind) ==
    IF kind = "SQLServer"
    THEN { <<>>, << <<S_server, PyStr(<<"s">>)>>, <<S_database, PyStr(<<"e">>)>> >> }
    ELSE { << <<S_server, PyStr(<<"s">>)>>, <<S_database, PyStr(<<"e">>)>> >>,
           << <<S_server, PyStr(<<"s">>)>>, <<S_database, PyStr(<<"e">>)>>,
              <<S_driver, PyStr(<<"v">>)>> >> }

\* the strings given as the connection_string keyword
KeywordStrings == {PyStr(<<>>)} \cup HandStrings

\* what a constructor call leaves to be looked at
CxOfInit(cs, r, cachedBefore) == Cx("__init__", cs, r.raised, PyNone, r.obj, TRUE, cachedBefore)

\* type(instance)(..., connection_string=cs): a constructor call owes nothing
\* to the operations of an earlier instance, so it is taken from the start
NewWithConnectionString ==
    /\ cx = NoCx
    /\ \E cs \in KeywordStrings : \E kw \in KeywordArgs(attrs.kind) :
          cx' = CxOfInit(cs,
                         IF attrs.kind = "SQLServer" THEN SQLServerInitWithString(kw, cs)
                         ELSE BaseInitWithString(kw, cs),
                         attrs.cached)
    /\ UNCHANGED <<attrs, instanceVars, normVars, contractVars, targetVars>>

\* the instances the constructors build from explicit arguments
InitCodec ==
    /\ InstanceInit
    /\ dialect = "SQLServer"
    /\ NormIdle
    /\ TargetIdle
    /\ ContractIdle
    /\ \/ \E sv \in Servers, i \in Instances, d \in Databases, dr \in Drivers,
            u \in Usernames, pw \in Passwords, tc \in TrustFlags :
            LET new == BaseInit(<< <<S_server, sv>>, <<S_database, d>>, <<S_instance, i>>,
                                   <<S_driver, dr>>, <<S_username, u>>, <<S_password, pw>>,
                                   <<S_trusted_connection, tc>> >>)
            IN  new.raised = NoError /\ attrs = new.obj
       \/ \E sv \in Servers \cup {PyNone}, d \in Databases,
            dr \in Drivers \cup {SQLSERVER_DRIVER_DEFAULT}, tc \in TrustFlags :
            attrs = SQLServerInit(<< <<S_server, sv>>, <<S_database, d>>, <<S_driver, dr>>,
                                     <<S_trusted_connection, tc>> >>).obj
    /\ cx = NoCx

NextCodec ==
    \/ ReadConnectionString
    \/ ReadConnectionInformation
    \/ SetAttr
    \/ WithConnectionString
    \/ ToAttributes
    \/ NewWithConnectionString

SpecCodec == InitCodec /\ [][NextCodec]_vars


Next ==
    \/ GetConnection
    \/ Query
    \/ ListDictResults
    \/ ConvertCall

Spec == Init /\ [][Next]_vars

(***************************************************************************)
(* Claims.                                                                 *)
(***************************************************************************)

\* C1: on an instance whose get_connection_and_cursor has never returned
\* normally, a query call raises NoCursorInitializedError, calls neither
\* execute nor commit, and leaves query_results as it was (the initial None).
C1_QueryBeforeCursor ==
    (last.op = "query" /\ ~everAcquired) =>
        /\ last.raised = "NoCursorInitializedError"
        /\ ~last.executed
        /\ ~last.committed
        /\ ~last.changed
        /\ query_results = PyNone
        /\ ~everExecuted

\* C1 witness: a query on an instance whose only acquisition attempt opened a
\* connection and then failed to create the cursor
C1_Witness ==
    /\ last.op = "query"
    /\ ~everAcquired
    /\ connection # 0
    /\ last.raised = "NoCursorInitializedError"

\* C2: for a row set of exactly one row, normalize_single_result returns the
\* bare value when the row has one column, the first value when it has two
\* columns and the second is the empty string, and the row itself otherwise.
C2_SingleRow ==
    (normOut # NoRowsYet /\ Len(normIn.v) = 1) =>
        LET row == normIn.v[1]
        IN  CASE Len(row.v) = 1 -> normOut = row.v[1]
              [] Len(row.v) = 2 /\ row.v[2] = PyStr(<<>>) -> normOut = row.v[1]
              [] OTHER -> normOut = row /\ normOut # normIn

\* C2 witness: one row of two columns with a blank second column, normalized
C2_Witness ==
    /\ normOut # NoRowsYet
    /\ Len(normIn.v) = 1
    /\ Len(normIn.v[1].v) = 2
    /\ normIn.v[1].v[2] = PyStr(<<>>)
    /\ normIn.v[1].v[1] = PyStr(<<"a">>)

\* C3: a row set of N >= 2 rows is returned as it is: the same rows in the
\* same order, whatever their width and values.
C3_MultiRow ==
    (normOut # NoRowsYet /\ Len(normIn.v) >= 2) =>
        /\ normOut.t = "list"
        /\ Len(normOut.v) = Len(normIn.v)
        /\ \A i \in 1..Len(normIn.v) : normOut.v[i] = normIn.v[i]

\* C3 witness: two one-column rows, the first of which would collapse alone
C3_Witness ==
    /\ normOut # NoRowsYet
    /\ Len(normIn.v) >= 2
    /\ Len(normIn.v[1].v) = 1
    /\ normOut = normIn

\* C4 (as claimed): after a query that raised nothing and fetched zero rows,
\* query_results is None.
C4_ZeroRowsIsNone ==
    (last.op = "query" /\ last.raised = "none" /\ Len(lastGood.rows.v) = 0) =>
        query_results = PyNone

\* C5: query_results is the normalized row set of the latest query call that
\* raised nothing, and None while there is none: a raising query leaves it.
C5_LatestGoodQuery ==
    query_results =
        IF lastGood.done THEN normalize_single_result(lastGood.rows) ELSE PyNone

\* C5 witness: a query that raised after an earlier one had stored rows
C5_Witness ==
    /\ last.op = "query"
    /\ last.raised = "DriverError"
    /\ lastGood.done
    /\ Len(lastGood.rows.v) >= 1
    /\ description # lastGood.desc

\* the cursor still describes the query whose rows are stored
DescribesStoredRows ==
    /\ lastGood.done
    /\ lastGood.desc.set
    /\ description = lastGood.desc

UniqueNames(names) ==
    \A i, j \in 1..Len(names) : names[i] = names[j] => i = j

\* record d maps every one of names to the value row has in that column
MapsRow(d, row, names) ==
    /\ d.t = "dict"
    /\ Len(d.v) = Len(names)
    /\ \A j \in 1..Len(names) : \E k \in 1..Len(d.v) : d.v[k] = <<names[j], row.v[j]>>

KeysSorted(d) ==
    \A k \in 1..(Len(d.v) - 1) : Rank(d.v[k][1]) < Rank(d.v[k + 1][1])

\* C6: for stored rows of N >= 2 rows with unique column names,
\* list_dict_results returns N records in row order, each mapping every column
\* name to the row's value, with keys in sorted order.
C6_RecordsOfManyRows ==
    (/\ last.op = "list_dict_results"
     /\ DescribesStoredRows
     /\ Len(lastGood.rows.v) >= 2
     /\ UniqueNames(lastGood.desc.names)) =>
        /\ last.raised = "none"
        /\ last.ret.t = "list"
        /\ Len(last.ret.v) = Len(lastGood.rows.v)
        /\ \A i \in 1..Len(lastGood.rows.v) :
              /\ MapsRow(last.ret.v[i], lastGood.rows.v[i], lastGood.desc.names)
              /\ KeysSorted(last.ret.v[i])

\* C6 witness: records read after a query of two rows whose columns are not
\* in sorted order
C6_Witness ==
    /\ last.op = "list_dict_results"
    /\ DescribesStoredRows
    /\ Len(lastGood.rows.v) = 2
    /\ lastGood.desc.names = <<"note", "name", "id">>
    /\ last.raised = "none"

\* C7 (as claimed): for stored rows of k >= 1 rows, list_dict_results returns
\* exactly k records, one per row, keyed by the column names.
C7_RecordsOfAnyRows ==
    (/\ last.op = "list_dict_results"
     /\ DescribesStoredRows
     /\ Len(lastGood.rows.v) >= 1) =>
        /\ last.raised = "none"
        /\ last.ret.t = "list"
        /\ Len(last.ret.v) = Len(lastGood.rows.v)
        /\ \A i \in 1..Len(lastGood.rows.v) :
              MapsRow(last.ret.v[i], lastGood.rows.v[i], lastGood.desc.names)

\* C8 (as claimed): while no query has run, asking for column-keyed records
\* raises NoResultsToConvertError, through list_dict_results and through
\* _ConvertToFinalListDict.
C8_NoQueryNoRecords ==
    (~everExecuted /\ last.op \in {"list_dict_results", "_ConvertToFinalListDict"}) =>
        last.raised = "NoResultsToConvertError"

\* C9 (as claimed): for every dialect, instantiating a tracking helper whose
\* catalog lacks a required role fails with MissingRequiredClassAttribute
\* before any connection is opened, and the error names every missing role.
C9_MissingRolesAlways ==
    (built.done /\ \E r \in RequiredRoles(klass.dialect) : klass.catalog[r] # "sql") =>
        /\ built.err = "MissingRequiredClassAttribute"
        /\ ~built.connected
        /\ \A r \in RequiredRoles(klass.dialect) :
              klass.catalog[r] # "sql" => r \in built.missing

\* C9 (amended): the same, for a helper whose TABLES_TO_TRACK is not the
\* ignore-sentinel alone.
C9_MissingRoles ==
    (/\ built.done
     /\ ~OnlySentinel(klass.tables)
     /\ \E r \in RequiredRoles(klass.dialect) : klass.catalog[r] # "sql") =>
        /\ built.err = "MissingRequiredClassAttribute"
        /\ ~built.connected
        /\ built.issued = <<>>
        /\ \A r \in RequiredRoles(klass.dialect) :
              klass.catalog[r] # "sql" => r \in built.missing

\* C9 witness: a Postgres helper that tracks a table and lacks two roles, one
\* absent and one still the placeholder, refused
C9_Witness ==
    /\ built.done
    /\ klass.dialect = "Postgres"
    /\ klass.tables = <<"test_table">>
    /\ klass.catalog["FUNC_EXISTS_CHECK"] = "absent"
    /\ klass.catalog["INSERT_TRIGGER"] = "placeholder"
    /\ built.err = "MissingRequiredClassAttribute"

\* C10: for every dialect, instantiating a tracking helper whose
\* TABLES_TO_TRACK holds only the ignore-sentinel fails with
\* NoTrackedTablesError, an error that is no MissingRequiredClassAttribute (nor
\* the reverse), and issues no provisioning statement.
C10_OnlySentinel ==
    (built.done /\ OnlySentinel(klass.tables)) =>
        /\ built.err = "NoTrackedTablesError"
        /\ ~IsA(built.err, "MissingRequiredClassAttribute")
        /\ ~IsA("MissingRequiredClassAttribute", built.err)
        /\ built.issued = <<>>

\* C10 witness: a helper with a complete catalog and a sentinel-only
\* TABLES_TO_TRACK, refused, on a database that lacks the audit table
C10_Witness ==
    /\ built.done
    /\ klass.tables = <<MAGIC_IGNORE_STRING>>
    /\ MissingRoles(klass) = {}
    /\ ~db.audit
    /\ built.err = "NoTrackedTablesError"
CreationRoles ==
    {"AUDIT_LOG_CREATE_TABLE"} \cup {TriggerRoles[i] : i \in 1..Len(TriggerRoles)}

\* the target holds the audit table and every trigger of every tracked table
Provisioned(k, d) ==
    /\ d.audit
    /\ \A i \in 1..Len(k.tables) :
          k.tables[i] # MAGIC_IGNORE_STRING =>
              \A op \in TriggerOps : <<k.tables[i], op>> \in d.triggers

C12_CommitIffAsked ==
    last.op = "query" =>
        /\ (last.is_commit /\ last.accepted) => last.committed
        /\ ~last.is_commit => ~last.committed

FunctionStatementRoles ==
    {"FUNC_EXISTS_CHECK"} \cup {FunctionAttrs[i] : i \in 1..Len(FunctionAttrs)}

\* C13 (as claimed): when a function-exists check or a function-creation
\* statement fails while a Postgres helper is provisioned, the caller gets a
\* ProvisioningFailed error carrying that statement and the driver's error.
C13_ProvisioningFailed ==
    (/\ built.done
     /\ klass.dialect = "Postgres"
     /\ built.failed.role \in FunctionStatementRoles) =>
        /\ built.err = "ProvisioningFailed"
        /\ built.carried.stmt = built.failed
        /\ built.carried.cause = "DriverError"

\* the attributes are non-empty and the call decoded the string that
\* connection_string builds from them
DecodedOwnString ==
    /\ cx.op = "with_connection_string"
    /\ All(RequiredAttrs(attrs))
    /\ cx.arg = PyStr(BuiltString(attrs))

\* C14 (as claimed): for connection attributes with non-empty server,
\* instance, database and driver, decoding the string connection_string
\* produces gives back the same server, instance, database, driver, username,
\* password and trust flag.
C14_RoundTrip ==
    (attrs.kind = "Base" /\ DecodedOwnString) =>
        /\ cx.raised = NoError
        /\ cx.obj.server = attrs.server
        /\ cx.obj.instance = attrs.instance
        /\ cx.obj.database = attrs.database
        /\ cx.obj.driver = attrs.driver
        /\ cx.obj.username = attrs.username
        /\ cx.obj.password = attrs.password
        /\ cx.obj.trusted_connection = attrs.trusted_connection

\* C15 (as claimed): for a SQLServerHelper with non-empty server, database,
\* driver and trusted_connection, the string connection_string returns decodes
\* through with_connection_string without error to an instance with the same
\* server, database, driver and trusted_connection.
C15_SQLServerRoundTrip ==
    (attrs.kind = "SQLServer" /\ DecodedOwnString) =>
        /\ cx.raised = NoError
        /\ cx.obj.server = attrs.server
        /\ cx.obj.database = attrs.database
        /\ cx.obj.driver = attrs.driver
        /\ cx.obj.trusted_connection = attrs.trusted_connection

\* the attribute exists and is neither None nor empty
Present(value) == value.t \notin {"None", "noattr"} /\ Truthy(value)

\* what a read of connection_string did, given whether it had to build
ReadBuilt(build) ==
    IF build
    THEN cx.ret = PyStr(BuiltString(attrs)) /\ attrs.cached = cx.ret
    ELSE cx.ret = cx.cachedBefore /\ attrs.cached = cx.cachedBefore

\* C16 (as claimed): a read of connection_string returns a string built from
\* the current values when server, instance, database and driver are all
\* non-empty, and otherwise the cached string, leaving the cache as it was.
C16_ClaimedFour ==
    cx.op = "connection_string" =>
        ReadBuilt(/\ Present(attrs.server)
                  /\ Present(attrs.instance)
                  /\ Present(attrs.database)
                  /\ Present(attrs.driver))

\* C16 (amended): the same, over the attributes the class asks for: server,
\* instance, database, driver in _BaseConnectionAttributes; server, database,
\* driver, trusted_connection in SQLServerHelper, which has no instance.
C16_RequiredOfClass ==
    cx.op = "connection_string" =>
        ReadBuilt(\A i \in 1..Len(RequiredAttrs(attrs)) : Present(RequiredAttrs(attrs)[i]))

\* C16 witness: a read that returned a string cached before the database
\* name was emptied
C16_Witness ==
    /\ cx.op = "connection_string"
    /\ attrs.kind = "Base"
    /\ attrs.database = PyStr(<<>>)
    /\ cx.cachedBefore # PyNone
    /\ cx.ret = cx.cachedBefore

\* the first position of ch in str (0: none)
FirstAt(str, ch) ==
    IF \E i \in 1..Len(str) : str[i] = ch
    THEN CHOOSE i \in 1..Len(str) : str[i] = ch /\ \A j \in 1..(i - 1) : str[j] # ch
    ELSE 0

\* C17 (as claimed): decoding yields, for each attribute of the string, an
\* entry whose key is the lower-cased text before the first key/value
\* delimiter and whose value is everything after it, delimiters included.
\* (The server attribute, which the base class splits again, is left out.)
C17_ValueKeptWhole ==
    (cx.op = "_connection_string_to_attributes" /\ cx.raised = NoError) =>
        LET pieces == Split(cx.arg.v, ";")
        IN  \A i \in 1..Len(pieces) :
               LET k == FirstAt(pieces[i], "=")
                   key == Lower(SubSeq(pieces[i], 1, k - 1))
               IN  (/\ key # S_server
                    /\ \A j \in 1..Len(pieces) :
                          j # i => Lower(SubSeq(pieces[j], 1, FirstAt(pieces[j], "=") - 1)) # key)
                   => /\ HasKey(cx.ret, key)
                      /\ Get(cx.ret, key, PyNone)
                            = PyStr(SubSeq(pieces[i], k + 1, Len(pieces[i])))

\* C18: with_connection_string called with an empty or None connection
\* string raises the connection-string-required error (AttributeError
\* "connection_string is required") before anything is parsed and without
\* constructing an instance, in both classes.
C18_StringRequired ==
    (cx.op = "with_connection_string" /\ cx.arg \in {PyNone, PyStr(<<>>)}) =>
        /\ cx.raised = RequiredError
        /\ ~cx.parsed
        /\ cx.obj = NoAttrs

\* C18 witness: SQLServerHelper.with_connection_string('') refused
C18_Witness ==
    /\ cx.op = "with_connection_string"
    /\ attrs.kind = "SQLServer"
    /\ cx.arg = PyStr(<<>>)
    /\ cx.raised = RequiredError

\* C19: the password entry of connection_information is the placeholder, and
\* connection_information is the same whatever the password is.
C19_PasswordWithheld ==
    attrs.kind = "Base" =>
        /\ connection_information(attrs).password = WITHHELD
        /\ \A pw \in Passwords :
              connection_information([attrs EXCEPT !.password = pw])
                  = connection_information(attrs)
        /\ cx.op = "connection_information" => cx.ret = connection_information(attrs)

\* C19 witness: connection_information read on an instance whose password is
\* not empty
C19_Witness ==
    /\ cx.op = "connection_information"
    /\ attrs.kind = "Base"
    /\ attrs.password = PyStr(<<"p", "=", "q">>)
    /\ cx.ret.password = WITHHELD

\* C20 (as claimed): whatever get_connection_and_cursor calls were made, at
\* most one of the connections the instance opened is still open.  (No
\* operation of the instance closes a connection, so every connection in
\* opened is open.)
C20_AtMostOneOpen == Cardinality(opened) <= 1

\* what the class decodes from the connection string cs
Decoded(kind, cs) ==
    IF kind = "SQLServer" THEN ParseAttributes(cs.v, ";", "=").ret
    ELSE connection_string_to_attributes(cs.v, ";", "=").ret

\* C21 (as claimed): an instance constructed with a connection_string keyword
\* has server, database and driver equal to the values decoded from the string.
C21_KeywordDecoded ==
    (cx.op = "__init__" /\ cx.raised = NoError) =>
        LET dec == Decoded(cx.obj.kind, cx.arg)
        IN  /\ HasKey(dec, S_server) => cx.obj.server = Get(dec, S_server, PyNone)
            /\ HasKey(dec, S_database) => cx.obj.database = Get(dec, S_database, PyNone)
            /\ HasKey(dec, S_driver) => cx.obj.driver = Get(dec, S_driver, PyNone)

\* C22: a driver exception raised inside query (execute, fetchall, commit) or
\* inside get_connection_and_cursor (connect, cursor) reaches the caller as
\* that same exception, logged once at error severity; the call does not
\* return, and get_connection_and_cursor never returns (None, None).
C22_DriverErrorReachesCaller ==
    /\ (last.op \in {"query", "get_connection_and_cursor"} /\ last.thrown # NoExc) =>
          /\ last.reached = last.thrown
          /\ last.raised = "DriverError"
          /\ last.logged = << [level |-> "error", err |-> last.thrown] >>
          /\ last.ret = PyNone
          /\ ~last.changed
    /\ last.op = "get_connection_and_cursor" => last.ret # PyTuple(<<PyNone, PyNone>>)

\* C22 witness: a commit that raised inside a query whose rows had been
\* fetched, on an instance that has stored rows from an earlier query
C22_Witness ==
    /\ last.op = "query"
    /\ last.thrown = DriverException("commit")
    /\ last.reached = DriverException("commit")
    /\ lastGood.done

\* the audit table, the three triggers of the table and (Postgres) the three
\* functions are all there
Installed(table) ==
    /\ db.audit
    /\ \A op \in TriggerOps : <<table, op>> \in db.triggers
    /\ klass.dialect = "Postgres" => FunctionNames \subseteq db.functions

\* the audit row the claim expects for one touched row
ExpectedAudit(op, table, row) ==
    CASE op = "insert" ->
             [table_name |-> table, operation |-> "INSERT", old_row_data |-> SqlNull,
              new_row_data |-> [t |-> "json", row |-> row.new]]
      [] op = "update" ->
             [table_name |-> table, operation |-> "UPDATE",
              old_row_data |-> [t |-> "json", row |-> row.old],
              new_row_data |-> [t |-> "json", row |-> row.new]]
      [] op = "delete" ->
             [table_name |-> table, operation |-> "DELETE",
              old_row_data |-> [t |-> "json", row |-> row.old],
              new_row_data |-> SqlNull]

\* C23: with the audit objects installed, a statement on the tracked table
\* adds to audit_log exactly one row per row it inserts, updates or deletes,
\* in that order, with the operation, the images and the table name of the
\* claim, and leaves the earlier audit rows as they were.
C23_OneAuditRowPerRow ==
    (dml # NoDml /\ Installed(dml.table)) =>
        /\ ~dml.raised
        /\ audit_log = dml.before
                \o [i \in 1..Len(dml.rows) |-> ExpectedAudit(dml.op, dml.table, dml.rows[i])]

\* C23 witness: a DELETE of two rows at once after an earlier statement
C23_Witness ==
    /\ dml # NoDml
    /\ Installed(dml.table)
    /\ dml.op = "delete"
    /\ Len(dml.rows) = 2
    /\ Len(dml.before) >= 1
    /\ Len(audit_log) = Len(dml.before) + 2

\* before statement j of the latest construction, function name was checked,
\* and created when the database did not hold it
CheckedBefore(j, attr) ==
    LET name == format_func_name(attr)
        before == built.log[built.runs].before
    IN  /\ \E i \in 1..(j - 1) :
              built.issued[i].role = "FUNC_EXISTS_CHECK" /\ built.issued[i].about = name
        /\ name \notin before.functions =>
              \E i \in 1..(j - 1) : built.issued[i].role = attr

\* C24 (as claimed): in the construction of a PostgresHelperTT, every CREATE
\* TRIGGER statement is issued after all three trigger functions have been
\* checked, and created if absent.
C24_FunctionsBeforeTriggers ==
    (built.done /\ klass.dialect = "Postgres") =>
        \A j \in 1..Len(built.issued) :
            built.issued[j].role \in {TriggerRoles[i] : i \in 1..Len(TriggerRoles)} =>
                \A k \in 1..Len(FunctionAttrs) : CheckedBefore(j, FunctionAttrs[k])

\* the statements _check_or_create_functions issued in the latest construction
FunctionRun ==
    SelectSeq(built.issued,
              LAMBDA st : st.role = "FUNC_EXISTS_CHECK" \/ st.role \in FunctionAttrSet)
ChecksOf(run) == SelectSeq(run, LAMBDA st : st.role = "FUNC_EXISTS_CHECK")
DdlOf(run) == SelectSeq(run, LAMBDA st : st.role \in FunctionAttrSet)
ThreeFunctions ==
    { <<"LOG_AFTER_INSERT_FUNC", S_log_after_insert>>,
      <<"LOG_AFTER_UPDATE_FUNC", S_log_after_update>>,
      <<"LOG_AFTER_DELETE_FUNC", S_log_after_delete>> }

\* C25 (as claimed): a run of _check_or_create_functions that no injected
\* driver fault cuts short checks exactly the three functions
\* log_after_insert, log_after_update, log_after_delete, issues the DDL of a
\* function exactly when its check found it absent, and issues no DDL and
\* raises nothing when all three exist.
C25_ChecksThreeCreatesAbsent ==
    (/\ built.done
     /\ klass.dialect = "Postgres"
     /\ ~built.injected
     /\ FunctionRun # <<>>) =>
        LET before == built.log[built.runs].before
        IN  /\ Len(ChecksOf(FunctionRun)) = 3
            /\ {ChecksOf(FunctionRun)[i].about : i \in 1..3}
                  = {f[2] : f \in ThreeFunctions}
            /\ \A f \in ThreeFunctions :
                  (\E i \in 1..Len(DdlOf(FunctionRun)) :
                       DdlOf(FunctionRun)[i].role = f[1]) <=> f[2] \notin before.functions
            /\ (\A f \in ThreeFunctions : f[2] \in before.functions) =>
                  (DdlOf(FunctionRun) = <<>> /\ built.err = "none")

\* instance i has sent the DDL of the function at position k
SentDdl(i, k) ==
    \E n \in 1..Len(procs[i].ddl) : procs[i].ddl[n].role = FunctionAttrs[k]

\* C26: each instance sends a function's DDL on the strength of its own
\* earlier check alone (it sends the DDL exactly when the database lacked
\* the function as that check ran), so nothing keeps two instances from both
\* finding a function absent and both sending its DDL.
C26_EachActsOnItsOwnCheck ==
    \A i \in Instances2 :
        \A k \in 1..Len(procs[i].held) :
            /\ procs[i].reported[k] = procs[i].held[k]
            /\ (k < procs[i].k \/ procs[i].pc = "done") => (SentDdl(i, k) <=> ~procs[i].held[k])

\* C26 witness: both instances found log_after_insert absent, the second
\* after the first had run its check and before the first sent its DDL, and
\* both sent CREATE OR REPLACE FUNCTION log_after_insert
C26_Witness ==
    /\ FuncNameOf[1] = S_log_after_insert
    /\ \E i \in Instances2 : 1 \in procs[i].between
    /\ \A i \in Instances2 :
          /\ Len(procs[i].reported) >= 1
          /\ ~procs[i].reported[1]
          /\ SentDdl(i, 1)

\* C27 (as claimed): after a provisioning pass that ends without error, every
\* tracked table has its insert, update and delete triggers, whichever of
\* them existed before the pass, and no trigger that existed is created again.
C27_PartialStateCompleted ==
    (built.done /\ built.err = "none") =>
        LET before == built.log[built.runs].before
        IN  /\ \A i \in 1..Len(klass.tables) :
                  klass.tables[i] # MAGIC_IGNORE_STRING =>
                      \A op \in TriggerOps : <<klass.tables[i], op>> \in db.triggers
            /\ \A j \in 1..Len(built.issued) :
                  built.issued[j].role \in {TriggerRoles[i] : i \in 1..Len(TriggerRoles)} =>
                      <<built.issued[j].about, TriggerOp(built.issued[j].role)>>
                          \notin before.triggers

\* C28 (as claimed): in every state of an instance the stored cursor is unset
\* or comes from the stored connection, also after a get_connection_and_cursor
\* that opened a connection and failed to create its cursor.
C28_CursorOfStoredConnection ==
    cursor = 0 \/ cursor = connection

\* C29 (as claimed): on a PostgresHelper whose server lists one schema or
\* more, assigning schema_choice = v succeeds exactly when v is one of the
\* listed names; otherwise ValueError is raised and schema_choice keeps its
\* value.
C29_SchemaChoiceValidated ==
    pg.state \in {"built", "failed"} =>
        LET listed == \E i \in 1..Len(pg.schemas) : PyStr(pg.schemas[i]) = pg.last.value
        IN  /\ (pg.last.raised = "none") <=> listed
            /\ pg.last.raised = "none" => pg.schema_choice = pg.last.value
            /\ pg.last.raised # "none" =>
                  (pg.last.raised = "ValueError" /\ pg.schema_choice = pg.last.before)

\* C30 (as claimed): the constructor of a PostgresHelperTT checks each
\* function in the schema chosen for the instance, and once it has returned
\* that schema holds every one of the functions.
C30_FunctionsInChosenSchema ==
    (pg.kind = "PostgresHelperTT" /\ pg.constructed # PyNone) =>
        /\ \A i \in 1..Len(pg.sent) :
              pg.sent[i].role = "FUNC_EXISTS_CHECK" =>
                  pg.sent[i].schema = pg.constructed.v
        /\ pg.state = "built" =>
              \A f \in FunctionNames : <<pg.constructed.v, f>> \in pg.functions
====
